---- MODULE Spec2Model ----
(***************************************************************************)
(* A model of the ParticleEngine repository: the Particle, the Emitter,    *)
(* the Engine and the RequestAnimationFrame frame clock.                   *)
(*                                                                         *)
(* Numbers.  The frame quantum is (1 / 60) * 1000 ms = 50/3 ms, so every   *)
(* time held in the state (timestamps, birthdates, lifespans, delays) is   *)
(* an integer number of thirds of a millisecond: MsUnit = 3 units make a   *)
(* millisecond and the quantum is Quantum = 50 units.  The options give    *)
(* times in milliseconds and the integer helper rolls whole milliseconds;  *)
(* Ms converts where the code stores or compares the rolled value.         *)
(* Arithmetic is exact: the rounding of the doubles the code adds up is    *)
(* not modelled.  Forces (fx, fy, gravity, drift) are integers in units of *)
(* 1/ForceUnit, the step of Emitter.driftDecay (0.001).  A position is an  *)
(* integer in units of 1/PosUnit pixel, so that                            *)
(*     x += (speed * fx) * (delta / 1000)                                  *)
(* is the exact integer step  x' = x + speed * fx * delta.                 *)
(* Math.random() is a nondeterministic choice: a helper that rolls a       *)
(* number is modelled as the set of the numbers it can return.             *)
(***************************************************************************)
EXTENDS Integers, Sequences, FiniteSets, TLC

VARIABLES
    emitters,          \* Engine.emitters, the ordered collection of emitters
    emitterIdCount,    \* Engine.emitterIdCount
    clockState,        \* RequestAnimationFrame.state
    engineTime,        \* RequestAnimationFrame.engineTime
    animationFrameId,  \* RequestAnimationFrame.animationFrameId
    pendingFrames,     \* host: the frame requests neither fired nor cancelled
    rafCount,          \* host: the number of frame requests issued so far
    canvas,            \* the draw calls made on the canvas since it was last cleared
    callback,          \* RequestAnimationFrame.callback is set
    canvasContext,     \* Engine.canvasContext: "undefined", "null" or "2d"
    driftPushes,       \* the setDrift calls of the last Emitter.update, in order
    particle,          \* a particle driven on its own (SpecParticle)
    now,               \* the timestamp of the last update call of the driver
    lastOp             \* the operation the last step performed

vars == << emitters, emitterIdCount, clockState, engineTime, animationFrameId,
           pendingFrames, rafCount, canvas, callback, canvasContext, driftPushes,
           particle, now, lastOp >>

clockVars == << clockState, engineTime, animationFrameId, pendingFrames, rafCount >>

engineVars == << emitterIdCount, clockState, engineTime, animationFrameId,
                 pendingFrames, rafCount, canvas, callback, canvasContext >>

-----------------------------------------------------------------------------
(* Units and program constants                                             *)

\* Forces are counted in units of driftDecay = 0.001.
ForceUnit == 1000

\* driftDecay = 0.001, in force units.
DriftDecay == 1

\* The 1000 of (delta / 1000) in Particle.update.
MsPerSecond == 1000

\* Time units per millisecond, and the frame quantum (1 / 60) * 1000 ms.
MsUnit == 3

Quantum == 50

Ms(n) == n * MsUnit

\* Position units per pixel.
PosUnit == ForceUnit * MsPerSecond * MsUnit

\* The value of a field that was declared and never assigned.
Undefined == -1

Abs(n) == IF n < 0 THEN -n ELSE n

Max(a, b) == IF a >= b THEN a ELSE b

Range(lo, hi) == [min |-> lo, max |-> hi]

-----------------------------------------------------------------------------
(* ParticleMath                                                            *)

\* Math.floor(Math.random() * (max - min + 1) + min) with 0 <= random < 1.
getRandomBetween(min, max) ==
    IF max >= min THEN min .. max ELSE (max + 1) .. min

\* Math.random() * (max - min) + min, on the integer grid of its unit.
getRandomFloatBetween(min, max) ==
    IF max > min THEN min .. (max - 1)
    ELSE IF max < min THEN (max + 1) .. min
    ELSE {min}

\* value * -1
reverseSign(value) == value * (-1)

\* getRandomFlag() ? value * -1 : value
randomizeSign(value) == {value, value * (-1)}

\* Math.cos / Math.sin of an angle in degrees, for the axis directions.
Cos(deg) ==
    CASE deg \in {0, 360} -> 1
      [] deg \in {90, 270} -> 0
      [] deg = 180 -> -1

Sin(deg) ==
    CASE deg \in {0, 180, 360} -> 0
      [] deg = 90 -> 1
      [] deg = 270 -> -1

-----------------------------------------------------------------------------
(* Particle                                                                *)

\* The jitter set-up of the constructor: the (force, interval) pairs it can roll.
\* jitter is in force units (0.1 is 100), so jitter * 100 ms is jitter \div 10.
JitterSetups(jitter) ==
    IF jitter > 0
    THEN { [force |-> s, interval |-> i] :
             s \in UNION { randomizeSign(f) :
                             f \in getRandomFloatBetween(jitter - 100, jitter + 100) },
             i \in { Ms(n) : n \in getRandomBetween(Max(500 - (jitter \div 10), 0),
                                                     Max(700 - (jitter \div 10), 100)) } }
    ELSE { [force |-> 0, interval |-> 0] }

\* new Particle(canvasContext, timestamp, options): the particles it can build.
NewParticles(timestamp, o) ==
    { [ x |-> o.x * PosUnit,
        y |-> o.y * PosUnit,
        speed |-> o.speed,
        drift |-> 0,
        fx |-> ForceUnit * Cos(o.direction),
        fy |-> ForceUnit * Sin(o.direction),
        gravity |-> o.gravity,
        jitter |-> Abs(o.jitter),
        jitterForce |-> j.force,
        jitterInterval |-> j.interval,
        lastJitter |-> IF Abs(o.jitter) > 0 THEN timestamp ELSE 0,
        age |-> Undefined,
        lifespan |-> Ms(o.lifespan),
        birthdate |-> timestamp,
        dead |-> FALSE,
        size |-> o.size ] : j \in JitterSetups(Abs(o.jitter)) }

\* Particle.setDrift
setDrift(p, drift) == [p EXCEPT !.drift = drift]

\* A gravity that pulls even when the option is 0.
applyGravityAlways(p) == [p EXCEPT !.fy = p.fy + ((p.gravity + 1) * p.size)]

\* Particle.applyGravity
applyGravity(p) == [p EXCEPT !.fy = p.fy + (p.gravity * p.size)]

\* Particle.applyDrift
applyDrift(p) == [p EXCEPT !.fx = p.fx + (p.drift * p.size)]

\* A jitter that reverses its force on every update.
applyJitterEveryUpdate(p, timestamp, delta) ==
    IF p.jitter > 0
    THEN LET force == reverseSign(p.jitterForce)
             num == force * (2 * p.jitterInterval - p.jitterInterval) * p.size
             den == 2 * delta * p.speed
         IN  [p EXCEPT !.jitterForce = force,
                       !.lastJitter = timestamp,
                       !.fx = IF den > 0 THEN p.fx + (num \div den) ELSE p.fx]
    ELSE p

\* Particle.applyJitter.  scale = framesToNextInterval - totalFrames / 2
\*   = (2 * (jitterInterval - elapsed) - jitterInterval) / (2 * delta);
\* the quotient is taken once, rounded down, over the whole product.
applyJitter(p, timestamp, delta) ==
    IF p.jitter > 0
    THEN LET flip == timestamp - p.lastJitter >= p.jitterInterval
             force == IF flip THEN reverseSign(p.jitterForce) ELSE p.jitterForce
             last == IF flip THEN timestamp ELSE p.lastJitter
             num == force * (2 * (p.jitterInterval - (timestamp - last)) - p.jitterInterval)
                      * p.size
             den == 2 * delta * p.speed
         IN  [p EXCEPT !.jitterForce = force,
                       !.lastJitter = last,
                       !.fx = IF den > 0 THEN p.fx + (num \div den) ELSE p.fx]
    ELSE p

\* A dead test that lets the particle live through age = lifespan.
LifeOverStrict(lifespan, age) == lifespan > 0 /\ age > lifespan

\* The dead test of Particle.update: lifespan > 0 && age >= lifespan.
LifeOver(lifespan, age) == lifespan > 0 /\ age >= lifespan

\* An update that applies the forces and moves the particle before it looks at
\* the dead flag.
Particle_updateMovesDead(p, timestamp, delta) ==
    LET aged == [p EXCEPT !.age = timestamp - p.birthdate]
        marked == IF LifeOver(aged.lifespan, aged.age)
                  THEN [aged EXCEPT !.dead = TRUE]
                  ELSE aged
        f == applyJitter(applyDrift(applyGravity(marked)), timestamp, delta)
    IN  [f EXCEPT !.x = f.x + (f.speed * f.fx * delta),
                  !.y = f.y + (f.speed * f.fy * delta)]

\* Particle.update(timestamp, delta)
Particle_update(p, timestamp, delta) ==
    LET aged == [p EXCEPT !.age = timestamp - p.birthdate]
        marked == IF LifeOver(aged.lifespan, aged.age)
                  THEN [aged EXCEPT !.dead = TRUE]
                  ELSE aged
    IN  IF marked.dead
        THEN marked
        ELSE LET f == applyJitter(applyDrift(applyGravity(marked)), timestamp, delta)
             IN  [f EXCEPT !.x = f.x + (f.speed * f.fx * delta),
                           !.y = f.y + (f.speed * f.fy * delta)]

\* Particle.isDead
isDead(p) == p.dead

\* Particle.render: the draw calls it makes (none when dead).
Particle_render(p) ==
    IF p.dead THEN << >> ELSE << [x |-> p.x, y |-> p.y, size |-> 10 * p.size] >>

-----------------------------------------------------------------------------
(* Emitter (the variant with the drift object, size and jitter)            *)

\* The record r with the fields of s added.
Extend(r, s) ==
    [k \in DOMAIN r \cup DOMAIN s |-> IF k \in DOMAIN s THEN s[k] ELSE r[k]]

\* isDriftObject: typeof object === 'number' ? false : 'value' in object
isDriftObject(drift) == drift.isObject

\* if (this.drift): an object is truthy, a number is truthy unless it is 0.
Truthy(drift) == drift.isObject \/ drift.value # 0

\* A drift configuration object, and a drift given as a number.
DriftObject(value, interval, duration) ==
    [isObject |-> TRUE, value |-> value, interval |-> interval, duration |-> duration]

DriftNumber(value) ==
    [isObject |-> FALSE, value |-> value, interval |-> Range(0, 0), duration |-> Range(0, 0)]

\* The option fields' initialisers: what an emitter built with {} has.
\* quantity is an option the callers pass; the constructor copies it like any
\* other key (its absence is modelled as 1).
Defaults ==
    [ x |-> 0, y |-> 0, width |-> 20, height |-> 20, mode |-> "burst", gravity |-> 0,
      drift |-> DriftObject(0, Range(0, 0), Range(0, 0)),
      size |-> Range(1, 1), maxParticles |-> 1500,
      particleLife |-> Range(2500, 3000), frequency |-> Range(100, 400),
      angle |-> Range(0, 360), speed |-> Range(100, 400), jitter |-> 0,
      quantity |-> 1 ]

\* A constructor in which the initialisers win over the options.
ApplyOptionsDefaultsWin(options) == Extend(options, Defaults)

\* The constructor: for (const key in options) this[key] = options[key].
ApplyOptions(options) == Extend(Defaults, options)

\* The state fields' initialisers and the constructor body: the emitters the
\* constructor can build from the configuration cfg (the drift rolls differ).
ConstructEmitters(cfg) ==
    { [ cfg |-> cfg,
        particles |-> << >>,
        timestamp |-> Undefined,
        lastFrame |-> 0,
        lastEmittedTime |-> 0,
        allParticlesCreated |-> FALSE,
        driftInterval |-> Ms(di),
        lastDriftChange |-> 0,
        driftTimer |-> 0,
        driftDuration |-> Ms(dd),
        driftValue |-> 0,
        drifting |-> FALSE ] :
        di \in IF isDriftObject(cfg.drift)
               THEN getRandomBetween(cfg.drift.interval.min, cfg.drift.interval.max)
               ELSE {0},
        dd \in IF isDriftObject(cfg.drift)
               THEN getRandomBetween(cfg.drift.duration.min, cfg.drift.duration.max)
               ELSE {0} }

\* new Emitter(id, ..., options): an emitter carries the id the engine gave it
\* and is STOPPED until start().
NewEmitters(id, cfg) ==
    { Extend(e, [id |-> id, state |-> "STOPPED"]) : e \in ConstructEmitters(cfg) }

\* Emitter.getId
getId(e) == e.id

\* A start that begins the emission again on every call.
Emitter_startAgain(e) ==
    [e EXCEPT !.state = "RUNNING", !.lastEmittedTime = 0, !.allParticlesCreated = FALSE]

\* Emitter.start: sets the run state to RUNNING; no effect while RUNNING.
Emitter_start(e) ==
    IF e.state = "RUNNING" THEN e ELSE [e EXCEPT !.state = "RUNNING"]

\* A reset that leaves the allParticlesCreated flag as it is.
Emitter_resetKeepsFlag(e) ==
    { [e EXCEPT !.state = "STOPPED",
                !.particles = << >>,
                !.lastFrame = 0,
                !.lastEmittedTime = 0,
                !.lastDriftChange = 0,
                !.driftTimer = 0,
                !.driftValue = 0,
                !.drifting = FALSE,
                !.driftInterval = Ms(di),
                !.driftDuration = Ms(dd)] :
        di \in IF isDriftObject(e.cfg.drift)
               THEN getRandomBetween(e.cfg.drift.interval.min, e.cfg.drift.interval.max)
               ELSE {0},
        dd \in IF isDriftObject(e.cfg.drift)
               THEN getRandomBetween(e.cfg.drift.duration.min, e.cfg.drift.duration.max)
               ELSE {0} }

\* Emitter.reset: STOPPED, no particles, timers and drift cycle zeroed, the
\* initial drift interval and duration rolled again when drift is an object.
Emitter_reset(e) ==
    { [e EXCEPT !.state = "STOPPED",
                !.particles = << >>,
                !.lastFrame = 0,
                !.lastEmittedTime = 0,
                !.allParticlesCreated = FALSE,
                !.lastDriftChange = 0,
                !.driftTimer = 0,
                !.driftValue = 0,
                !.drifting = FALSE,
                !.driftInterval = Ms(di),
                !.driftDuration = Ms(dd)] :
        di \in IF isDriftObject(e.cfg.drift)
               THEN getRandomBetween(e.cfg.drift.interval.min, e.cfg.drift.interval.max)
               ELSE {0},
        dd \in IF isDriftObject(e.cfg.drift)
               THEN getRandomBetween(e.cfg.drift.duration.min, e.cfg.drift.duration.max)
               ELSE {0} }

\* Emitter.createParticle: the particles it can create at this.timestamp.
createParticle(e) ==
    UNION { NewParticles(e.timestamp,
                [ x |-> px, y |-> py, gravity |-> e.cfg.gravity, size |-> sz,
                  lifespan |-> life, direction |-> dir, speed |-> sp,
                  jitter |-> e.cfg.jitter ]) :
              px \in getRandomBetween(e.cfg.x, e.cfg.x + e.cfg.width),
              py \in getRandomBetween(e.cfg.y, e.cfg.y + e.cfg.height),
              life \in getRandomBetween(e.cfg.particleLife.min, e.cfg.particleLife.max),
              dir \in getRandomBetween(e.cfg.angle.min, e.cfg.angle.max),
              sp \in getRandomBetween(e.cfg.speed.min, e.cfg.speed.max),
              sz \in getRandomFloatBetween(e.cfg.size.min, e.cfg.size.max) }

\* A burst whose loop runs once too often (i <= maxParticles).
BurstCreateOneMore(e) ==
    { [e EXCEPT !.particles = e.particles \o ps, !.allParticlesCreated = TRUE] :
        ps \in [1 .. e.cfg.maxParticles + 1 -> createParticle(e)] }

\* A burst branch that leaves allParticlesCreated as it is.
BurstCreateAgain(e) ==
    { [e EXCEPT !.particles = e.particles \o ps] :
        ps \in [1 .. e.cfg.maxParticles -> createParticle(e)] }

\* case 'burst': push maxParticles particles, each from its own createParticle().
BurstCreate(e) ==
    { [e EXCEPT !.particles = e.particles \o ps, !.allParticlesCreated = TRUE] :
        ps \in [1 .. e.cfg.maxParticles -> createParticle(e)] }

\* A flow emission that pushes quantity particles.
FlowEmissionQuantity(e) == [1 .. e.cfg.quantity -> createParticle(e)]

\* The particles one flow emission pushes: one createParticle().
FlowEmission(e) == { << p >> : p \in createParticle(e) }

\* A flow branch for which maxParticles = 0 is a cap like any other.
FlowCreateZeroCaps(e) ==
    IF Len(e.particles) < e.cfg.maxParticles
    THEN LET elapsedSinceEmit == e.timestamp - e.lastEmittedTime
         IN  UNION { IF elapsedSinceEmit >= Ms(frequency)
                     THEN { [e EXCEPT !.particles = e.particles \o ps,
                                      !.lastEmittedTime = e.timestamp,
                                      !.allParticlesCreated =
                                          (Len(e.particles \o ps) = e.cfg.maxParticles)] :
                              ps \in FlowEmission(e) }
                     ELSE {e} :
                     frequency \in getRandomBetween(e.cfg.frequency.min,
                                                    e.cfg.frequency.max) }
    ELSE {e}

\* A flow branch that sets allParticlesCreated one particle late.
FlowCreateLateFlag(e) ==
    IF e.cfg.maxParticles = 0 \/ Len(e.particles) < e.cfg.maxParticles
    THEN LET elapsedSinceEmit == e.timestamp - e.lastEmittedTime
         IN  UNION { IF elapsedSinceEmit >= Ms(frequency)
                     THEN { [e EXCEPT !.particles = e.particles \o ps,
                                      !.lastEmittedTime = e.timestamp,
                                      !.allParticlesCreated =
                                          (Len(e.particles \o ps) = e.cfg.maxParticles + 1)] :
                              ps \in FlowEmission(e) }
                     ELSE {e} :
                     frequency \in getRandomBetween(e.cfg.frequency.min,
                                                    e.cfg.frequency.max) }
    ELSE {e}

\* A flow branch that never sets allParticlesCreated.
FlowCreateNoFlag(e) ==
    IF e.cfg.maxParticles = 0 \/ Len(e.particles) < e.cfg.maxParticles
    THEN LET elapsedSinceEmit == e.timestamp - e.lastEmittedTime
         IN  UNION { IF elapsedSinceEmit >= Ms(frequency)
                     THEN { [e EXCEPT !.particles = e.particles \o ps,
                                      !.lastEmittedTime = e.timestamp] :
                              ps \in FlowEmission(e) }
                     ELSE {e} :
                     frequency \in getRandomBetween(e.cfg.frequency.min,
                                                    e.cfg.frequency.max) }
    ELSE {e}

\* A flow branch that emits without waiting for the frequency.
FlowCreateUngated(e) ==
    IF e.cfg.maxParticles = 0 \/ Len(e.particles) < e.cfg.maxParticles
    THEN { [e EXCEPT !.particles = e.particles \o ps,
                     !.lastEmittedTime = e.timestamp,
                     !.allParticlesCreated =
                         (Len(e.particles \o ps) = e.cfg.maxParticles)] :
             ps \in FlowEmission(e) }
    ELSE {e}

\* A flow branch that emits without recording the time of the emission.
FlowCreateNoStamp(e) ==
    IF e.cfg.maxParticles = 0 \/ Len(e.particles) < e.cfg.maxParticles
    THEN LET elapsedSinceEmit == e.timestamp - e.lastEmittedTime
         IN  UNION { IF elapsedSinceEmit >= Ms(frequency)
                     THEN { [e EXCEPT !.particles = e.particles \o ps,
                                      !.allParticlesCreated =
                                          (Len(e.particles \o ps) = e.cfg.maxParticles)] :
                              ps \in FlowEmission(e) }
                     ELSE {e} :
                     frequency \in getRandomBetween(e.cfg.frequency.min,
                                                    e.cfg.frequency.max) }
    ELSE {e}

\* case 'flow'
FlowCreate(e) ==
    IF e.cfg.maxParticles = 0 \/ Len(e.particles) < e.cfg.maxParticles
    THEN LET elapsedSinceEmit == e.timestamp - e.lastEmittedTime
         IN  UNION { IF elapsedSinceEmit >= Ms(frequency)
                     THEN { [e EXCEPT !.particles = e.particles \o ps,
                                      !.lastEmittedTime = e.timestamp,
                                      !.allParticlesCreated =
                                          (Len(e.particles \o ps) = e.cfg.maxParticles)] :
                              ps \in FlowEmission(e) }
                     ELSE {e} :
                     frequency \in getRandomBetween(e.cfg.frequency.min,
                                                    e.cfg.frequency.max) }
    ELSE {e}

\* Emitter.createParticlesIfNecessary
createParticlesIfNecessary(e) ==
    CASE e.cfg.mode = "burst" -> BurstCreate(e)
      [] e.cfg.mode = "flow" -> FlowCreate(e)
      [] OTHER -> {e}

\* updateParticle, the first test of the drift object: begin a drift.
DriftBegin(e) ==
    IF e.timestamp - e.lastDriftChange > e.driftInterval /\ ~e.drifting
    THEN { [e EXCEPT !.driftValue = e.cfg.drift.value,
                     !.driftDuration = Ms(dd),
                     !.lastDriftChange = e.timestamp,
                     !.drifting = TRUE] :
             dd \in getRandomBetween(e.cfg.drift.duration.min, e.cfg.drift.duration.max) }
    ELSE {e}

\* A drift end that stops the drift at once, without the decay.
DriftEndAtOnce(e) ==
    IF e.drifting /\ e.timestamp - e.lastDriftChange >= e.driftDuration
    THEN { [e EXCEPT !.driftValue = 0,
                     !.driftInterval = Ms(di),
                     !.lastDriftChange = e.timestamp,
                     !.drifting = FALSE] :
             di \in getRandomBetween(e.cfg.drift.interval.min,
                                     e.cfg.drift.interval.max) }
    ELSE {e}

\* A drift end without the test that keeps the value from going negative.
DriftEndNoClamp(e) ==
    IF e.drifting /\ e.timestamp - e.lastDriftChange >= e.driftDuration
    THEN IF e.driftValue - DriftDecay < -1
         THEN { [e EXCEPT !.driftValue = 0,
                          !.driftInterval = Ms(di),
                          !.lastDriftChange = e.timestamp,
                          !.drifting = FALSE] :
                  di \in getRandomBetween(e.cfg.drift.interval.min,
                                          e.cfg.drift.interval.max) }
         ELSE { [e EXCEPT !.driftValue = e.driftValue - DriftDecay] }
    ELSE {e}

\* updateParticle, the second test: past its duration the drift decays by
\* driftDecay, and ends once it would go negative.
DriftEnd(e) ==
    IF e.drifting /\ e.timestamp - e.lastDriftChange >= e.driftDuration
    THEN IF e.driftValue - DriftDecay < 0
         THEN { [e EXCEPT !.driftValue = 0,
                          !.driftInterval = Ms(di),
                          !.lastDriftChange = e.timestamp,
                          !.drifting = FALSE] :
                  di \in getRandomBetween(e.cfg.drift.interval.min,
                                          e.cfg.drift.interval.max) }
         ELSE { [e EXCEPT !.driftValue = e.driftValue - DriftDecay] }
    ELSE {e}

\* The drift cycle as one call of updateParticle advances it.
DriftCycle(e) == UNION { DriftEnd(e1) : e1 \in DriftBegin(e) }

\* An updateParticle that advances the drift cycle for the first particle of
\* the update only, the others being handed the value as it then stands.
updateParticleSharedDrift(e, i) ==
    LET drifted ==
            IF Truthy(e.cfg.drift)
            THEN IF isDriftObject(e.cfg.drift)
                 THEN { [em |-> [e2 EXCEPT !.particles[i] = setDrift(@, e2.driftValue)],
                         pushes |-> << [id |-> e2.id, drifting |-> e2.drifting,
                                        value |-> e2.driftValue] >>] :
                          e2 \in IF i = 1 THEN DriftCycle(e) ELSE {e} }
                 ELSE { [em |-> [e EXCEPT !.particles[i] = setDrift(@, e.cfg.drift.value)],
                         pushes |-> << [id |-> e.id, drifting |-> e.drifting,
                                        value |-> e.cfg.drift.value] >>] }
            ELSE { [em |-> e, pushes |-> << >>] }
    IN  { [em |-> [r.em EXCEPT !.particles[i] =
                      Particle_update(@, r.em.timestamp, r.em.timestamp - r.em.lastFrame)],
           pushes |-> r.pushes] : r \in drifted }

\* An updateParticle that hands the particle one frame quantum as its delta,
\* whatever the time of the last update.
updateParticleQuantum(e, i) ==
    LET drifted ==
            IF Truthy(e.cfg.drift)
            THEN IF isDriftObject(e.cfg.drift)
                 THEN { [em |-> [e2 EXCEPT !.particles[i] = setDrift(@, e2.driftValue)],
                         pushes |-> << [id |-> e2.id, drifting |-> e2.drifting,
                                        value |-> e2.driftValue] >>] :
                          e2 \in DriftCycle(e) }
                 ELSE { [em |-> [e EXCEPT !.particles[i] = setDrift(@, e.cfg.drift.value)],
                         pushes |-> << [id |-> e.id, drifting |-> e.drifting,
                                        value |-> e.cfg.drift.value] >>] }
            ELSE { [em |-> e, pushes |-> << >>] }
    IN  { [em |-> [r.em EXCEPT !.particles[i] =
                      Particle_update(@, r.em.timestamp, Quantum)],
           pushes |-> r.pushes] : r \in drifted }

\* Emitter.updateParticle on the particle at index i.  A result is the emitter
\* after the call and the setDrift call made, if any: the value pushed and the
\* drifting flag at that moment.
updateParticle(e, i) ==
    LET drifted ==
            IF Truthy(e.cfg.drift)
            THEN IF isDriftObject(e.cfg.drift)
                 THEN { [em |-> [e2 EXCEPT !.particles[i] = setDrift(@, e2.driftValue)],
                         pushes |-> << [id |-> e2.id, drifting |-> e2.drifting,
                                        value |-> e2.driftValue] >>] :
                          e2 \in DriftCycle(e) }
                 ELSE { [em |-> [e EXCEPT !.particles[i] = setDrift(@, e.cfg.drift.value)],
                         pushes |-> << [id |-> e.id, drifting |-> e.drifting,
                                        value |-> e.cfg.drift.value] >>] }
            ELSE { [em |-> e, pushes |-> << >>] }
    IN  { [em |-> [r.em EXCEPT !.particles[i] =
                      Particle_update(@, r.em.timestamp, r.em.timestamp - r.em.lastFrame)],
           pushes |-> r.pushes] : r \in drifted }

\* this.particles.forEach(updateParticle), from index i on.
RECURSIVE UpdateParticlesFrom(_, _)
UpdateParticlesFrom(r, i) ==
    IF i > Len(r.em.particles)
    THEN {r}
    ELSE UNION { UpdateParticlesFrom([em |-> r2.em, pushes |-> r.pushes \o r2.pushes],
                                     i + 1) :
                   r2 \in updateParticle(r.em, i) }

\* A filter that keeps every particle.
PurgeNothing(ps) == ps

\* this.particles.filter(particle => !particle.isDead())
Purge(ps) == SelectSeq(ps, LAMBDA p : ~isDead(p))

\* An update body that updates the particles before it creates the new ones.
UpdateBodyCreateLast(e, timestamp) ==
    LET stamped == [e EXCEPT !.timestamp = timestamp]
        updated == UpdateParticlesFrom([em |-> stamped, pushes |-> << >>], 1)
        created == UNION { { [em |-> c, pushes |-> r.pushes] :
                               c \in IF ~r.em.allParticlesCreated
                                     THEN createParticlesIfNecessary(r.em)
                                     ELSE {r.em} } : r \in updated }
    IN  { [em |-> [r.em EXCEPT !.particles = Purge(r.em.particles),
                               !.lastFrame = timestamp],
           pushes |-> r.pushes] : r \in created }

\* The body of Emitter.update(timestamp).
UpdateBody(e, timestamp) ==
    LET stamped == [e EXCEPT !.timestamp = timestamp]
        created == IF ~stamped.allParticlesCreated
                   THEN createParticlesIfNecessary(stamped)
                   ELSE {stamped}
        updated == UNION { UpdateParticlesFrom([em |-> c, pushes |-> << >>], 1) :
                             c \in created }
    IN  { [em |-> [r.em EXCEPT !.particles = Purge(r.em.particles),
                               !.lastFrame = timestamp],
           pushes |-> r.pushes] : r \in updated }

\* Emitter.render: the draw calls of its particles, in collection order, each
\* tagged with the emitter that made it.
RECURSIVE RenderFrom(_, _)
RenderFrom(e, k) ==
    IF k > Len(e.particles)
    THEN << >>
    ELSE [ j \in DOMAIN Particle_render(e.particles[k]) |->
             Extend(Particle_render(e.particles[k])[j], [emitter |-> e.id]) ]
           \o RenderFrom(e, k + 1)

Emitter_render(e) == RenderFrom(e, 1)

\* An update that does not look at the run state.
Emitter_updateUnguarded(e, timestamp) == UpdateBody(e, timestamp)

\* Emitter.update(timestamp): a no-op unless the emitter is RUNNING.
Emitter_update(e, timestamp) ==
    IF e.state = "RUNNING"
    THEN UpdateBody(e, timestamp)
    ELSE { [em |-> e, pushes |-> << >>] }

-----------------------------------------------------------------------------
(* Bounds and configurations                                               *)

\* The last timestamp a driver passes to update, in ms.
MaxTime == 9

\* The largest step between two timestamps of a driver, in ms.
MaxDelta == 2

\* The maxParticles of the capped configurations.
CapN == 2

\* The largest quantity option.
MaxQuantity == 3

Deltas == { Ms(d) : d \in 1 .. MaxDelta }

\* A small spawn region, a fixed direction and no motion.
Still ==
    [ width |-> 1, height |-> 0, angle |-> Range(90, 90), speed |-> Range(0, 0) ]

CfgFlowCapped(q) ==
    ApplyOptions(Extend(Still,
        [ mode |-> "flow", maxParticles |-> CapN, quantity |-> q,
          frequency |-> Range(2, 3), particleLife |-> Range(3, 4) ]))

CfgFlowUnbounded ==
    ApplyOptions(Extend(Still,
        [ mode |-> "flow", maxParticles |-> 0, frequency |-> Range(1, 2),
          particleLife |-> Range(3, 3), speed |-> Range(1, 1), gravity |-> 1 ]))

CfgFlowForever ==
    ApplyOptions(Extend(Still,
        [ mode |-> "flow", maxParticles |-> CapN, frequency |-> Range(1, 1),
          particleLife |-> Range(0, 0) ]))

CfgBurst ==
    ApplyOptions(Extend(Still,
        [ mode |-> "burst", maxParticles |-> CapN, particleLife |-> Range(2, 3),
          frequency |-> Range(2, 3) ]))

CfgDrift ==
    ApplyOptions(Extend(Still,
        [ mode |-> "flow", maxParticles |-> CapN, frequency |-> Range(2, 2),
          particleLife |-> Range(4, 4), width |-> 0,
          drift |-> DriftObject(2, Range(1, 2), Range(1, 2)) ]))

CfgDriftNumber ==
    ApplyOptions(Extend(Still,
        [ mode |-> "flow", maxParticles |-> 1, frequency |-> Range(2, 2),
          particleLife |-> Range(3, 3), width |-> 0, drift |-> DriftNumber(3) ]))

Configs ==
    { CfgFlowCapped(q) : q \in 1 .. MaxQuantity }
      \cup { CfgFlowUnbounded, CfgFlowForever, CfgBurst, CfgDrift, CfgDriftNumber }

-----------------------------------------------------------------------------
(* Operations on the emitter at index i of the collection                  *)

\* An operation: its name, the id of the emitter it was called on (0 when it
\* is not an emitter's), and that emitter's run state and particle count before
\* (for an operation of the engine: the clock's state, and for stop the
\* particle count of all emitters).
Op(op, id, was, had) == [op |-> op, id |-> id, was |-> was, had |-> had]

NoParticle == [dead |-> FALSE]

\* emitter.start()
EmStart(i) ==
    /\ i \in DOMAIN emitters
    /\ emitters' = [emitters EXCEPT ![i] = Emitter_start(@)]
    /\ lastOp' = Op("start", emitters[i].id, emitters[i].state, Len(emitters[i].particles))
    /\ driftPushes' = << >>

\* emitter.reset()
EmReset(i) ==
    /\ i \in DOMAIN emitters
    /\ \E e \in Emitter_reset(emitters[i]) :
          emitters' = [emitters EXCEPT ![i] = e]
    /\ lastOp' = Op("reset", emitters[i].id, emitters[i].state, Len(emitters[i].particles))
    /\ driftPushes' = << >>

\* emitter.update(t)
EmUpdate(i, t) ==
    /\ i \in DOMAIN emitters
    /\ \E r \in Emitter_update(emitters[i], t) :
          /\ emitters' = [emitters EXCEPT ![i] = r.em]
          /\ driftPushes' = r.pushes
    /\ lastOp' = Op("update", emitters[i].id, emitters[i].state, Len(emitters[i].particles))

-----------------------------------------------------------------------------
(* Spec: one emitter, started, reset and updated by a driver whose         *)
(* timestamps increase                                                     *)

InertEngine ==
    /\ emitterIdCount = 1
    /\ clockState = "STOPPED"
    /\ engineTime = 0
    /\ animationFrameId = Undefined
    /\ pendingFrames = {}
    /\ rafCount = 0
    /\ canvas = << >>
    /\ callback = TRUE
    /\ canvasContext = "2d"

Init ==
    /\ \E cfg \in Configs : \E e \in NewEmitters(1, cfg) : emitters = << e >>
    /\ InertEngine
    /\ driftPushes = << >>
    /\ particle = NoParticle
    /\ now = 0
    /\ lastOp = Op("new", 1, "", 0)

Start ==
    /\ EmStart(1)
    /\ UNCHANGED << engineVars, particle, now >>

Reset ==
    /\ EmReset(1)
    /\ UNCHANGED << engineVars, particle, now >>

Update ==
    \E d \in Deltas :
        /\ now + d <= Ms(MaxTime)
        /\ EmUpdate(1, now + d)
        /\ now' = now + d
        /\ UNCHANGED << engineVars, particle >>

Next == Start \/ Reset \/ Update

Spec == Init /\ [][Next]_vars

-----------------------------------------------------------------------------
(* SpecParticle: one particle, built at its birthdate and then updated     *)
(* with increasing timestamps                                              *)

\* The lifespans of the particles of SpecParticle, in ms: infinite and finite.
ParticleLifespans == {0, 2, 3}

\* The birthdates of the particles of SpecParticle, in ms.
MaxBirth == 1

ParticleOptions ==
    { [ x |-> 0, y |-> 0, lifespan |-> life, direction |-> 90, gravity |-> g,
        jitter |-> 0, size |-> 1, speed |-> sp ] :
        life \in ParticleLifespans, g \in {0, 1}, sp \in {0, 1} }

NoEmitters ==
    /\ emitters = << >>
    /\ emitterIdCount = 0
    /\ clockState = "STOPPED"
    /\ engineTime = 0
    /\ animationFrameId = Undefined
    /\ pendingFrames = {}
    /\ rafCount = 0
    /\ canvas = << >>
    /\ callback = TRUE
    /\ canvasContext = "2d"
    /\ driftPushes = << >>

InitParticle ==
    /\ NoEmitters
    /\ \E b \in 0 .. MaxBirth : \E o \in ParticleOptions :
          /\ particle \in NewParticles(Ms(b), o)
          /\ now = Ms(b)
    /\ lastOp = Op("p.new", 0, "", 0)

\* particle.update(now + d, d)
PUpdate ==
    \E d \in Deltas :
        /\ now + d <= Ms(MaxTime)
        /\ particle' = Particle_update(particle, now + d, d)
        /\ now' = now + d
        /\ lastOp' = Op("p.update", 0, "", 0)
        /\ UNCHANGED << emitters, engineVars, driftPushes >>

\* particle.setDrift(v)
PSetDrift ==
    \E v \in {0, 2} :
        /\ particle' = setDrift(particle, v)
        /\ lastOp' = Op("p.setDrift", 0, "", 0)
        /\ UNCHANGED << emitters, engineVars, driftPushes, now >>

NextParticle == PUpdate \/ PSetDrift

SpecParticle == InitParticle /\ [][NextParticle]_vars

-----------------------------------------------------------------------------
(* SpecScenario: the flow emitter of the scenario, started at time 0 and   *)
(* updated at 101, 202 and 303 ms and at later times                       *)

\* The last timestamp of the scenario, in ms.
ScenarioMaxTime == 1500

\* frequency = [100, 100], quantity = 1, maxParticles = 3,
\* particleLife = [1000, 1000], speed = [0, 0], a spawn region that is the
\* point (0, 0).  (The direction is fixed: at speed 0 it moves nothing.)
ScenarioCfg ==
    ApplyOptions(
        [ mode |-> "flow", x |-> 0, y |-> 0, width |-> 0, height |-> 0,
          frequency |-> Range(100, 100), quantity |-> 1, maxParticles |-> 3,
          particleLife |-> Range(1000, 1000), speed |-> Range(0, 0),
          angle |-> Range(90, 90) ])

\* The steps between the timestamps after 303 ms: 101 ms, 798 ms (from 303 to
\* 1101) and a frame quantum.
ScenarioDeltas == { Ms(101), Ms(798), Quantum }

InitScenario ==
    /\ \E e \in NewEmitters(1, ScenarioCfg) : emitters = << e >>
    /\ InertEngine
    /\ driftPushes = << >>
    /\ particle = NoParticle
    /\ now = 0
    /\ lastOp = Op("new", 1, "", 0)

ScenarioStart ==
    /\ lastOp.op = "new"
    /\ EmStart(1)
    /\ UNCHANGED << engineVars, particle, now >>

ScenarioUpdate ==
    \E d \in IF now < Ms(303) THEN { Ms(101) } ELSE ScenarioDeltas :
        /\ emitters[1].state = "RUNNING"
        /\ now + d <= Ms(ScenarioMaxTime)
        /\ EmUpdate(1, now + d)
        /\ now' = now + d
        /\ UNCHANGED << engineVars, particle >>

NextScenario == ScenarioStart \/ ScenarioUpdate

SpecScenario == InitScenario /\ [][NextScenario]_vars

-----------------------------------------------------------------------------
(* Engine and RequestAnimationFrame                                        *)

\* The emitters the driver of SpecEngine creates at most, those the driver of
\* SpecCollection creates at most, and the frame requests the host accepts.
MaxEmitters == 2

MaxCollection == 3

MaxFrames == 4

\* Array.prototype.find with emitter.getId() === id: the index of the first
\* match, 0 for undefined.
FindIndex(ems, id) ==
    IF \E k \in DOMAIN ems : getId(ems[k]) = id
    THEN CHOOSE k \in DOMAIN ems :
             /\ getId(ems[k]) = id
             /\ \A j \in DOMAIN ems : getId(ems[j]) = id => k <= j
    ELSE 0

\* Engine.getEmitter
getEmitter(ems, id) == FindIndex(ems, id)

\* Array.prototype.indexOf of what getEmitter returned, as a JavaScript index:
\* -1 for undefined.
indexOf(ems, found) == IF found = 0 THEN -1 ELSE found - 1

\* Array.prototype.splice(start) without a delete count: everything from start
\* on is removed.
spliceToEnd(ems, start) ==
    LET from == IF start < 0 THEN Max(Len(ems) + start, 0) ELSE start
    IN  SubSeq(ems, 1, from)

\* Array.prototype.splice(start, 1), start a JavaScript index: a negative start
\* counts from the end.
splice1(ems, start) ==
    LET from == IF start < 0 THEN Max(Len(ems) + start, 0) ELSE start
    IN  IF from >= Len(ems)
        THEN ems
        ELSE SubSeq(ems, 1, from) \o SubSeq(ems, from + 2, Len(ems))

\* Engine.removeEmitter
removeEmitter(ems, id) == splice1(ems, indexOf(ems, getEmitter(ems, id)))

\* A forEach of Engine.update whose draw calls come before those made so far.
RECURSIVE UpdateEmittersBehind(_, _, _)
UpdateEmittersBehind(r, i, timestamp) ==
    IF i > Len(r.ems)
    THEN {r}
    ELSE UNION { UpdateEmittersBehind(
                     [ ems |-> [r.ems EXCEPT ![i] = u.em],
                       pushes |-> r.pushes \o u.pushes,
                       drawn |-> Emitter_render(u.em) \o r.drawn ],
                     i + 1, timestamp) :
                   u \in Emitter_update(r.ems[i], timestamp) }

\* The forEach of Engine.update from index i on: update then render each
\* emitter.  A result holds the emitters, the setDrift calls and the canvas.
RECURSIVE UpdateEmittersFrom(_, _, _)
UpdateEmittersFrom(r, i, timestamp) ==
    IF i > Len(r.ems)
    THEN {r}
    ELSE UNION { UpdateEmittersFrom(
                     [ ems |-> [r.ems EXCEPT ![i] = u.em],
                       pushes |-> r.pushes \o u.pushes,
                       drawn |-> r.drawn \o Emitter_render(u.em) ],
                     i + 1, timestamp) :
                   u \in Emitter_update(r.ems[i], timestamp) }

\* A clearRect that erases nothing.
clearRectNothing(drawn) == drawn

\* canvasContext.clearRect(0, 0, width, height): nothing drawn is left.
clearRect(drawn) == << >>

\* Engine.update(timestamp) on the emitters ems and the canvas drawn: clear the
\* canvas, then update and render.
Engine_update(ems, drawn, timestamp) ==
    UpdateEmittersFrom([ems |-> ems, pushes |-> << >>, drawn |-> clearRect(drawn)],
                       1, timestamp)

\* A createEmitter that takes the size of the collection, plus one, as the id.
CreateEmitterBySize(cfg) ==
    /\ emitterIdCount' = emitterIdCount + 1
    /\ \E e \in NewEmitters(Len(emitters) + 1, cfg) : emitters' = Append(emitters, e)
    /\ lastOp' = Op("createEmitter", Len(emitters) + 1, "", 0)
    /\ UNCHANGED << clockVars, canvas, driftPushes, callback, canvasContext, particle, now >>

\* engine.createEmitter(cfg)
CreateEmitter(cfg) ==
    /\ emitterIdCount' = emitterIdCount + 1
    /\ \E e \in NewEmitters(emitterIdCount + 1, cfg) : emitters' = Append(emitters, e)
    /\ lastOp' = Op("createEmitter", emitterIdCount + 1, "", 0)
    /\ UNCHANGED << clockVars, canvas, driftPushes, callback, canvasContext, particle, now >>

\* engine.removeEmitter(id)
RemoveEmitter(id) ==
    /\ emitters' = removeEmitter(emitters, id)
    /\ lastOp' = LET k == getEmitter(emitters, id)
                 IN  IF k = 0
                     THEN Op("removeEmitter", id, "", 0)
                     ELSE Op("removeEmitter", id, emitters[k].state,
                             Len(emitters[k].particles))
    /\ UNCHANGED << emitterIdCount, clockVars, canvas, driftPushes, callback, canvasContext, particle, now >>

\* engine.getEmitter(id).start(), for an id getEmitter finds.
StartEmitter(id) ==
    /\ getEmitter(emitters, id) # 0
    /\ EmStart(getEmitter(emitters, id))
    /\ UNCHANGED << engineVars, particle, now >>

\* RequestAnimationFrame.start without the test of the state (as in the first
\* version of the class): every call requests a frame.
EngineStartUnguarded ==
    /\ rafCount < MaxFrames
    /\ clockState' = "RUNNING"
    /\ rafCount' = rafCount + 1
    /\ animationFrameId' = rafCount + 1
    /\ pendingFrames' = pendingFrames \cup {rafCount + 1}
    /\ UNCHANGED engineTime
    /\ lastOp' = Op("engine.start", 0, clockState, 0)
    /\ UNCHANGED << emitters, emitterIdCount, canvas, driftPushes, callback, canvasContext, particle, now >>

\* engine.start(): RequestAnimationFrame.start
EngineStart ==
    /\ clockState = "RUNNING" \/ rafCount < MaxFrames
    /\ IF clockState = "RUNNING"
       THEN UNCHANGED clockVars
       ELSE /\ clockState' = "RUNNING"
            /\ rafCount' = rafCount + 1
            /\ animationFrameId' = rafCount + 1
            /\ pendingFrames' = pendingFrames \cup {rafCount + 1}
            /\ UNCHANGED engineTime
    /\ lastOp' = Op("engine.start", 0, clockState, 0)
    /\ UNCHANGED << emitters, emitterIdCount, canvas, driftPushes, callback, canvasContext, particle, now >>

\* An engine.pause() that sets the time to 0, as RequestAnimationFrame.stop does.
EnginePauseClearsTime ==
    /\ pendingFrames' = pendingFrames \ {animationFrameId}
    /\ clockState' = "STOPPED"
    /\ engineTime' = 0
    /\ lastOp' = Op("engine.pause", 0, clockState, 0)
    /\ UNCHANGED << emitters, emitterIdCount, animationFrameId, rafCount,
                    canvas, driftPushes, callback, canvasContext, particle, now >>

\* engine.pause(): RequestAnimationFrame.pause
EnginePause ==
    /\ pendingFrames' = pendingFrames \ {animationFrameId}
    /\ clockState' = "STOPPED"
    /\ lastOp' = Op("engine.pause", 0, clockState, 0)
    /\ UNCHANGED << emitters, emitterIdCount, engineTime, animationFrameId, rafCount,
                    canvas, driftPushes, callback, canvasContext, particle, now >>

\* All emitters reset, from index i on.
RECURSIVE ResetFrom(_, _)
ResetFrom(ems, i) ==
    IF i > Len(ems)
    THEN {ems}
    ELSE UNION { ResetFrom([ems EXCEPT ![i] = e], i + 1) : e \in Emitter_reset(ems[i]) }

\* The number of particles of the emitters of a collection from index k on.
RECURSIVE ParticleCount(_, _)
ParticleCount(ems, k) ==
    IF k > Len(ems) THEN 0 ELSE Len(ems[k].particles) + ParticleCount(ems, k + 1)

\* An engine.stop() whose clock only cancels the frame request, as the stop of
\* the first version of RequestAnimationFrame does: the time is kept.
EngineStopKeepsTime ==
    /\ pendingFrames' = pendingFrames \ {animationFrameId}
    /\ clockState' = "STOPPED"
    /\ emitters' \in ResetFrom(emitters, 1)
    /\ canvas' = clearRect(canvas)
    /\ driftPushes' = << >>
    /\ lastOp' = Op("engine.stop", 0, clockState, ParticleCount(emitters, 1))
    /\ UNCHANGED << emitterIdCount, engineTime, animationFrameId, rafCount, callback, canvasContext, particle, now >>

\* An engine.stop() that leaves the emitters and their particles as they are.
EngineStopKeepsParticles ==
    /\ pendingFrames' = pendingFrames \ {animationFrameId}
    /\ engineTime' = 0
    /\ clockState' = "STOPPED"
    /\ canvas' = clearRect(canvas)
    /\ driftPushes' = << >>
    /\ lastOp' = Op("engine.stop", 0, clockState, ParticleCount(emitters, 1))
    /\ UNCHANGED << emitters, emitterIdCount, animationFrameId, rafCount, callback,
                    canvasContext, particle, now >>

\* engine.stop(): RequestAnimationFrame.stop, every emitter reset, canvas cleared
EngineStop ==
    /\ pendingFrames' = pendingFrames \ {animationFrameId}
    /\ engineTime' = 0
    /\ clockState' = "STOPPED"
    /\ emitters' \in ResetFrom(emitters, 1)
    /\ canvas' = clearRect(canvas)
    /\ driftPushes' = << >>
    /\ lastOp' = Op("engine.stop", 0, clockState, ParticleCount(emitters, 1))
    /\ UNCHANGED << emitterIdCount, animationFrameId, rafCount, callback, canvasContext, particle, now >>

\* A run that calls Engine.update with the time as it is and advances it after.
FrameCallbackFirst ==
    \E id \in pendingFrames :
        /\ rafCount < MaxFrames
        /\ rafCount' = rafCount + 1
        /\ animationFrameId' = rafCount + 1
        /\ pendingFrames' = (pendingFrames \ {id}) \cup {rafCount + 1}
        /\ engineTime' = engineTime + Quantum
        /\ \E r \in Engine_update(emitters, canvas, engineTime) :
              /\ emitters' = r.ems
              /\ driftPushes' = r.pushes
              /\ canvas' = r.drawn
        /\ now' = engineTime
        /\ lastOp' = Op("update", 0, clockState, 0)
        /\ UNCHANGED << emitterIdCount, clockState, callback, canvasContext, particle >>

\* The host runs a pending frame request: RequestAnimationFrame.run, which
\* requests the next frame, advances engineTime and calls the callback, that is
\* Engine.update. Calling a callback that was never set throws, and so does
\* clearRect on a canvasContext that is undefined or null, before any emitter
\* is updated.
Frame ==
    \E id \in pendingFrames :
        /\ rafCount < MaxFrames
        /\ rafCount' = rafCount + 1
        /\ animationFrameId' = rafCount + 1
        /\ pendingFrames' = (pendingFrames \ {id}) \cup {rafCount + 1}
        /\ engineTime' = engineTime + Quantum
        /\ IF callback /\ canvasContext = "2d"
           THEN /\ \E r \in Engine_update(emitters, canvas, engineTime + Quantum) :
                      /\ emitters' = r.ems
                      /\ driftPushes' = r.pushes
                      /\ canvas' = r.drawn
                /\ lastOp' = Op("update", 0, clockState, 0)
           ELSE /\ UNCHANGED << emitters, driftPushes, canvas >>
                /\ lastOp' = Op("update.throws", 0, clockState, 0)
        /\ now' = engineTime + Quantum
        /\ UNCHANGED << emitterIdCount, clockState, callback, canvasContext, particle >>

\* The configurations of the emitters of SpecEngine, in ms: a capped flow that
\* emits at every frame and whose particles move, so that two of them are drawn
\* at different places, and a burst; the particles of both live two frames.
EngineConfigs ==
    << ApplyOptions(Extend(Still,
          [ mode |-> "flow", maxParticles |-> 2, frequency |-> Range(10, 10),
            particleLife |-> Range(30, 30), width |-> 0, speed |-> Range(1, 1) ])),
       ApplyOptions(Extend(Still,
          [ mode |-> "burst", maxParticles |-> 1, particleLife |-> Range(30, 30),
            width |-> 0 ])) >>

\* The driver of SpecEngine creates a flow emitter, a burst emitter, a flow
\* emitter and so on.
EngineConfigsFor(id) == { EngineConfigs[((id + 1) % 2) + 1] }

\* new Engine() and initialize(): no emitter, the clock STOPPED at time 0.
InitEngine ==
    /\ emitters = << >>
    /\ emitterIdCount = 0
    /\ clockState = "STOPPED"
    /\ engineTime = 0
    /\ animationFrameId = Undefined
    /\ pendingFrames = {}
    /\ rafCount = 0
    /\ canvas = << >>
    /\ callback = TRUE
    /\ canvasContext = "2d"
    /\ driftPushes = << >>
    /\ particle = NoParticle
    /\ now = 0
    /\ lastOp = Op("new", 0, "", 0)

NextEngine ==
    \/ /\ emitterIdCount < MaxEmitters
       /\ \E cfg \in EngineConfigsFor(emitterIdCount + 1) : CreateEmitter(cfg)
    \/ \E id \in 1 .. MaxEmitters : RemoveEmitter(id)
    \/ \E id \in 1 .. MaxEmitters : StartEmitter(id)
    \/ EngineStart
    \/ EnginePause
    \/ EngineStop
    \/ Frame

SpecEngine == InitEngine /\ [][NextEngine]_vars

-----------------------------------------------------------------------------
(* SpecCollection: an engine whose driver creates, removes and starts      *)
(* emitters and starts the clock, which then runs                          *)

NextCollection ==
    \/ /\ emitterIdCount < MaxCollection
       /\ \E cfg \in EngineConfigsFor(emitterIdCount + 1) : CreateEmitter(cfg)
    \/ \E id \in 1 .. MaxCollection : RemoveEmitter(id)
    \/ \E id \in 1 .. MaxCollection : StartEmitter(id)
    \/ EngineStart
    \/ Frame

SpecCollection == InitEngine /\ [][NextCollection]_vars

-----------------------------------------------------------------------------
(* The Emitter of src/ts/core/Emitter.ts: its constructor's treatment of   *)
(* maxParticles and particleLife, the burst and flock creation loops and   *)
(* createParticle's lifespan roll. Lifespans are in whole ms here.         *)

\* Math.min(maxParticles, 1500)
BurstCap == 1500

Min(a, b) == IF a <= b THEN a ELSE b

\* The flow emissions followed.
MaxOlderFlow == 2

\* The drift values of this emitter are counted in tenths.
OlderUnit == 10

\* options.maxParticles || 1500, capped in burst mode only.
Older_maxParticles(mode, maxParticles) ==
    LET given == IF maxParticles \in { Undefined, 0 } THEN 1500 ELSE maxParticles
    IN  IF mode = "burst" THEN Min(given, BurstCap) ELSE given

\* options.particleLife || { min: 0, max: 0 }, replaced by 500..2000 in burst
\* and flow mode when its max is 0.
Older_particleLife(options) ==
    LET given == IF "particleLife" \in DOMAIN options
                 THEN options.particleLife
                 ELSE Range(0, 0)
    IN  IF options.mode \in { "burst", "flow" } /\ given.max = 0
        THEN Range(500, 2000)
        ELSE given

\* new Emitter(options): generated counts the particles pushed so far,
\* lifespan is the lifespan createParticle rolled for the one pushed last, and
\* driftX and driftY are the drift last set on a particle.
Older_constructor(options) ==
    [ mode                |-> options.mode,
      maxParticles        |-> Older_maxParticles(options.mode, options.maxParticles),
      particleLife        |-> Older_particleLife(options),
      drift               |-> IF "drift" \in DOMAIN options THEN options.drift ELSE "none",
      driftValue          |-> IF "driftValue" \in DOMAIN options
                              THEN options.driftValue
                              ELSE Range(0, 0),
      allParticlesCreated |-> FALSE,
      generated           |-> 0,
      lifespan            |-> Undefined,
      driftX              |-> 0,
      driftY              |-> 0 ]

\* Math.floor(Math.random() * (max - min + 1) + min)
Older_getRandomBetween(min, max) ==
    IF max >= min THEN min .. max ELSE (max + 1) .. min

\* createParticle: lifespan = getRandomBetween(particleLife.min, particleLife.max)
Older_createParticle(e) ==
    { [ e EXCEPT !.generated = @ + 1, !.lifespan = l ] :
        l \in Older_getRandomBetween(e.particleLife.min, e.particleLife.max) }

\* for (let i = 0; i < this.maxParticles; i++) particles.push(createParticle()),
\* in burst and in flock mode; allParticlesCreated = true.
Older_createAll(e) ==
    IF 0 < e.maxParticles
    THEN { [ e EXCEPT !.generated = @ + e.maxParticles,
                      !.lifespan = l,
                      !.allParticlesCreated = TRUE ] :
             l \in Older_getRandomBetween(e.particleLife.min, e.particleLife.max) }
    ELSE { [ e EXCEPT !.allParticlesCreated = TRUE ] }

\* The flow branch on a tick whose frequency gate passes, while no particle
\* has died: one particle is pushed below the cap.
Older_flowCreate(e) ==
    IF e.maxParticles = 0 \/ e.generated < e.maxParticles
    THEN { [ p EXCEPT !.allParticlesCreated = (p.generated = p.maxParticles) ] :
             p \in Older_createParticle(e) }
    ELSE { e }

\* Emitter.getRandomFloatBetween: Math.random() * (max - min + 1) + min, on
\* the grid of tenths.
Older_getRandomFloatBetween(min, max) ==
    LET span == (max - min) + OlderUnit
    IN  IF span > 0 THEN min .. (min + span - 1)
        ELSE IF span < 0 THEN (min + span + 1) .. min
        ELSE {min}

\* updateParticleDrift: a drift rolled for each axis the drift option names,
\* 0 for the other, and set on the particle.
Older_updateParticleDrift(e) ==
    { [ e EXCEPT !.driftX = dx, !.driftY = dy ] :
        dx \in IF e.drift \in { "x-axis", "both" }
               THEN Older_getRandomFloatBetween(e.driftValue.min, e.driftValue.max)
               ELSE {0},
        dy \in IF e.drift \in { "y-axis", "both" }
               THEN Older_getRandomFloatBetween(e.driftValue.min, e.driftValue.max)
               ELSE {0} }

OlderModes == { "burst", "flow", "flock" }

OlderMaxParticles == { Undefined, 0, 1, BurstCap - 1, BurstCap, BurstCap + 1 }

OlderLives == { Range(0, 0), Range(0, 1), Range(1, 2), Range(3, 3) }

OlderDrifts == { "x-axis", "y-axis", "both" }

\* Drift ranges in tenths: the constant 0.5 and the range from -0.3 to 0.4.
OlderDriftValues == { Range(5, 5), Range(-3, 4) }

OlderOptions ==
    { [ mode |-> m, maxParticles |-> n ] :
        m \in OlderModes, n \in OlderMaxParticles }
    \cup
    { [ mode |-> m, maxParticles |-> n, particleLife |-> l ] :
        m \in OlderModes, n \in OlderMaxParticles, l \in OlderLives }
    \cup
    { [ mode |-> "burst", maxParticles |-> 1, particleLife |-> Range(3, 3),
        drift |-> d, driftValue |-> v ] :
        d \in OlderDrifts, v \in OlderDriftValues }

InitOlder ==
    /\ \E o \in OlderOptions : emitters = << Older_constructor(o) >>
    /\ InertEngine
    /\ driftPushes = << >>
    /\ particle = NoParticle
    /\ now = 0
    /\ lastOp = Op("older.new", 1, "", 0)

\* createParticlesIfNecessary in flow mode, the gate passing.
OlderFlowCreate ==
    /\ emitters[1].mode = "flow"
    /\ ~emitters[1].allParticlesCreated
    /\ emitters[1].generated < MaxOlderFlow
    /\ \E e \in Older_flowCreate(emitters[1]) : emitters' = << e >>
    /\ lastOp' = Op("older.flow", 1, "", emitters[1].generated)
    /\ UNCHANGED << engineVars, driftPushes, particle, now >>

\* createParticlesIfNecessary in burst or flock mode, before the flag is set.
OlderCreateAll ==
    /\ emitters[1].mode \in { "burst", "flock" }
    /\ ~emitters[1].allParticlesCreated
    /\ \E e \in Older_createAll(emitters[1]) : emitters' = << e >>
    /\ lastOp' = Op("older.createAll", 1, "", emitters[1].generated)
    /\ UNCHANGED << engineVars, driftPushes, particle, now >>

\* updateParticle on a particle that is ready for a drift change, the drift
\* option not being 'none'.
OlderUpdateParticleDrift ==
    /\ emitters[1].drift # "none"
    /\ emitters[1].generated > 0
    /\ \E e \in Older_updateParticleDrift(emitters[1]) : emitters' = << e >>
    /\ lastOp' = Op("older.drift", 1, "", emitters[1].generated)
    /\ UNCHANGED << engineVars, driftPushes, particle, now >>

NextOlder == OlderFlowCreate \/ OlderCreateAll \/ OlderUpdateParticleDrift

SpecOlder == InitOlder /\ [][NextOlder]_vars

-----------------------------------------------------------------------------
(* SpecConstruct: the constructor applied to configurations that supply     *)
(* any subset of the option fields                                          *)

\* A value for each option field, none of them the field's initialiser.
Offered ==
    [ x |-> 5, y |-> 7, mode |-> "flow", maxParticles |-> 50,
      particleLife |-> Range(1, 2), frequency |-> Range(300, 700),
      angle |-> Range(90, 90), speed |-> Range(0, 0), jitter |-> 1 ]

\* The configurations: every subset of the fields, {} included.
ConstructOptions == { [ k \in S |-> Offered[k] ] : S \in SUBSET DOMAIN Offered }

\* new Emitter(1, ..., options); the call is recorded with its argument.
Construct ==
    \E options \in ConstructOptions :
        /\ \E e \in NewEmitters(1, ApplyOptions(options)) : emitters' = << e >>
        /\ emitterIdCount' = 1
        /\ lastOp' = Extend(Op("construct", 1, "", 0), [ options |-> options ])
        /\ UNCHANGED << clockVars, canvas, driftPushes, callback, canvasContext, particle, now >>

SpecConstruct == InitEngine /\ [][Construct]_vars

-----------------------------------------------------------------------------
(* SpecSetup: an engine from its construction on; the driver calls          *)
(* initialize first, as the demo does, and then starts and pauses the clock *)

\* new Engine(): no callback is set and there is no canvas yet.
InitSetup ==
    /\ emitters = << >>
    /\ emitterIdCount = 0
    /\ clockState = "STOPPED"
    /\ engineTime = 0
    /\ animationFrameId = Undefined
    /\ pendingFrames = {}
    /\ rafCount = 0
    /\ canvas = << >>
    /\ callback = FALSE
    /\ canvasContext = "undefined"
    /\ driftPushes = << >>
    /\ particle = NoParticle
    /\ now = 0
    /\ lastOp = Op("new", 0, "", 0)

\* canvas.getContext('2d'): the rendering context, or null where the host has
\* none to give.
getContext == { "2d", "null" }

\* engine.initialize(): sets the callback, creates and appends the canvas and
\* stores what getContext returns; it tests nothing and returns nothing.
Initialize ==
    /\ callback' = TRUE
    /\ canvasContext' \in getContext
    /\ lastOp' = Op("engine.initialize", 0, clockState, 0)
    /\ UNCHANGED << emitters, emitterIdCount, clockVars, canvas, driftPushes,
                    particle, now >>

NextSetup ==
    \/ ~callback /\ Initialize
    \/ callback /\ EngineStart
    \/ callback /\ EnginePause
    \/ callback /\ emitterIdCount < MaxEmitters
                /\ \E cfg \in EngineConfigsFor(emitterIdCount + 1) : CreateEmitter(cfg)
    \/ \E id \in 1 .. MaxEmitters : StartEmitter(id)
    \/ Frame

SpecSetup == InitSetup /\ [][NextSetup]_vars

-----------------------------------------------------------------------------
(* SpecJitter: a particle driven on its own, with and without jitter        *)

\* The longest jitter interval followed, in ms.
JitterMaxInterval == 2

\* A jitter of 7, in force units: its interval is rolled from 0 to 100 ms.
JitterOptions ==
    { [ x |-> 0, y |-> 0, lifespan |-> life, direction |-> 90, gravity |-> g,
        jitter |-> j, size |-> 1, speed |-> 1 ] :
        life \in {0, 4}, g \in {0, 1}, j \in {0, 7 * ForceUnit, -7 * ForceUnit} }

\* The particles followed: of those the constructor can build at time 0, the
\* ones with a short jitter interval and the strongest jitter force.
InitJitter ==
    /\ NoEmitters
    /\ \E o \in JitterOptions :
          /\ particle \in NewParticles(0, o)
          /\ particle.jitterInterval <= Ms(JitterMaxInterval)
          /\ Abs(particle.jitterForce) \in { 0, particle.jitter + 99 }
          /\ now = 0
    /\ lastOp = Op("p.new", 0, "", 0)

SpecJitter == InitJitter /\ [][NextParticle]_vars

-----------------------------------------------------------------------------
(* Flock mode of src/ts/core/Emitter.ts: the broadcast of a waypoint to    *)
(* the particles. Times are in whole ms. The positions of the particles    *)
(* are left out; a particle is its creation index, its age and the         *)
(* waypoints it was handed.                                                *)

\* The last timestamp followed, in ms.
FlockMaxTime == 6

\* flockMeta = null
NoFlockMeta == [ x |-> Undefined, y |-> Undefined, interval |-> Undefined ]

\* new Emitter(options) in flock mode: x, y, width || 20, height || 20,
\* flockInterval, lastFlock = 0 and the first nextFlock.
Flock_constructor(options) ==
    { [ mode                  |-> "flock",
        x                     |-> options.x,
        y                     |-> options.y,
        width                 |-> IF options.width = 0 THEN 20 ELSE options.width,
        height                |-> IF options.height = 0 THEN 20 ELSE options.height,
        maxParticles          |-> Older_maxParticles("flock", options.maxParticles),
        particleLife          |-> options.particleLife,
        flockInterval         |-> options.flockInterval,
        lastFlock             |-> 0,
        nextFlock             |-> n,
        particleFlockInterval |-> Undefined,
        flockMeta             |-> NoFlockMeta,
        allParticlesCreated   |-> FALSE,
        particles             |-> << >>,
        timestamp             |-> Undefined,
        lastFrame             |-> Undefined ] :
        n \in Older_getRandomBetween(options.flockInterval.min,
                                     options.flockInterval.max) }

\* new Particle(canvasContext, this.timestamp, { lifespan, ... }), the i-th
\* of the creation loop.
Flock_createParticle(e, i, lifespan) ==
    [ id |-> i, birthdate |-> e.timestamp, lifespan |-> lifespan, age |-> 0,
      dead |-> FALSE, flock |-> << >> ]

\* The flock branch of createParticlesIfNecessary: maxParticles particles are
\* pushed in the order of the loop, each with a lifespan of its own.
Flock_createAll(e) ==
    LET lives == Older_getRandomBetween(e.particleLife.min, e.particleLife.max)
    IN  { [ e EXCEPT !.particles = [ i \in 1 .. e.maxParticles |->
                                       Flock_createParticle(e, i, l[i]) ],
                     !.allParticlesCreated = TRUE ] :
            l \in [ 1 .. e.maxParticles -> lives ] }

\* A broadcast whose waypoint is rolled inside the spawn footprint.
Flock_broadcastInFootprint(e) ==
    IF e.mode = "flock" /\ e.timestamp - e.lastFlock > e.nextFlock
    THEN { [ e EXCEPT !.particleFlockInterval = 50,
                      !.flockMeta = [ x |-> wx, y |-> wy, interval |-> 20 ],
                      !.lastFlock = e.timestamp,
                      !.nextFlock = n ] :
             wx \in Older_getRandomBetween(e.x, e.x + e.width),
             wy \in Older_getRandomBetween(e.y, e.y + e.height),
             n \in Older_getRandomBetween(e.flockInterval.min, e.flockInterval.max) }
    ELSE { e }

\* The broadcast of update(): the delay starts at 50, the waypoint is rolled
\* from 0..width and 0..height, lastFlock is stamped and nextFlock rolled.
Flock_broadcast(e) ==
    IF e.mode = "flock" /\ e.timestamp - e.lastFlock > e.nextFlock
    THEN { [ e EXCEPT !.particleFlockInterval = 50,
                      !.flockMeta = [ x |-> wx, y |-> wy, interval |-> 20 ],
                      !.lastFlock = e.timestamp,
                      !.nextFlock = n ] :
             wx \in Older_getRandomBetween(0, e.width),
             wy \in Older_getRandomBetween(0, e.height),
             n \in Older_getRandomBetween(e.flockInterval.min, e.flockInterval.max) }
    ELSE { e }

\* particle.updateFlock(x, y, interval): the waypoint joins the queue of the
\* particle.
Particle_updateFlock(p, wx, wy, interval) ==
    [ p EXCEPT !.flock = Append(@, [ x |-> wx, y |-> wy, interval |-> interval ]) ]

\* An updateFlock that hands every particle the same delay.
Older_updateFlockSameDelay(e, i) ==
    [ e EXCEPT !.particles[i] =
          Particle_updateFlock(@, e.flockMeta.x, e.flockMeta.y,
                               e.particleFlockInterval + 5) ]

\* Emitter.updateFlock on the i-th particle of the collection.
Older_updateFlock(e, i) ==
    LET delay == e.particleFlockInterval + 5
    IN  [ e EXCEPT !.particleFlockInterval = delay,
                   !.particles[i] =
                       Particle_updateFlock(@, e.flockMeta.x, e.flockMeta.y, delay) ]

\* The ageing of particle.update(timestamp, delta).
Flock_particleUpdate(p, timestamp) ==
    IF p.dead THEN [ p EXCEPT !.age = timestamp - p.birthdate ]
    ELSE [ p EXCEPT !.age = timestamp - p.birthdate,
                    !.dead = (p.lifespan > 0 /\ timestamp - p.birthdate >= p.lifespan) ]

\* Emitter.updateParticle on the i-th particle; the drift option is 'none'.
Flock_updateParticle(e, i) ==
    LET f == IF e.flockMeta # NoFlockMeta THEN Older_updateFlock(e, i) ELSE e
    IN  [ f EXCEPT !.particles[i] = Flock_particleUpdate(@, e.timestamp) ]

\* this.particles.forEach(updateParticle), from the i-th particle on.
RECURSIVE Flock_forEach(_, _)
Flock_forEach(e, i) ==
    IF i > Len(e.particles) THEN e
    ELSE Flock_forEach(Flock_updateParticle(e, i), i + 1)

\* Emitter.update(timestamp) up to the end of the forEach: the flockMeta of
\* the results is the waypoint of this tick, if there is one.
Flock_updateToForEach(e, timestamp) ==
    LET stamped == [ e EXCEPT !.timestamp = timestamp ]
        created == IF ~stamped.allParticlesCreated
                   THEN Flock_createAll(stamped)
                   ELSE { stamped }
    IN  { Flock_forEach(b, 1) : b \in UNION { Flock_broadcast(c) : c \in created } }

\* The rest of Emitter.update: flockMeta = null, the dead are filtered out,
\* lastFrame = timestamp.
Flock_updateEnd(e) ==
    [ e EXCEPT !.flockMeta = NoFlockMeta,
               !.particles = SelectSeq(@, LAMBDA p : ~p.dead),
               !.lastFrame = e.timestamp ]

\* The emitters followed: at the origin and away from it, one to three
\* particles that live forever or 3 ms, a flock interval of 1 to 2 ms.
FlockOptions ==
    { [ x |-> at, y |-> at, width |-> 1, height |-> 2, maxParticles |-> n,
        particleLife |-> l, flockInterval |-> Range(1, 2) ] :
        at \in { 0, 3 }, n \in 1 .. 3, l \in { Range(0, 0), Range(3, 3) } }

InitFlock ==
    /\ \E o \in FlockOptions : \E e \in Flock_constructor(o) : emitters = << e >>
    /\ InertEngine
    /\ driftPushes = << >>
    /\ particle = NoParticle
    /\ now = 0
    /\ lastOp = Op("older.new", 1, NoFlockMeta, << >>)

\* Emitter.update(timestamp), 1 or 2 ms after the tick before. lastOp keeps
\* the waypoint of the tick and the collection as the forEach left it.
FlockUpdate ==
    \E d \in 1 .. 2 :
        /\ now + d <= FlockMaxTime
        /\ now' = now + d
        /\ \E e \in Flock_updateToForEach(emitters[1], now + d) :
              /\ emitters' = << Flock_updateEnd(e) >>
              /\ lastOp' = Op("older.update", 1, e.flockMeta, e.particles)
        /\ UNCHANGED << engineVars, driftPushes, particle >>

SpecFlock == InitFlock /\ [][FlockUpdate]_vars

-----------------------------------------------------------------------------
(* Claims                                                                  *)

Emitters == { emitters[i] : i \in DOMAIN emitters }

\* The particles of e created by the update at timestamp t.
BornAt(e, t) == { k \in DOMAIN e.particles : e.particles[k].birthdate = t }

\* C1: a flow emitter with maxParticles = N > 0, whatever its quantity, never
\* holds more than N live particles.
C1_FlowCap ==
    \A e \in Emitters :
        (e.cfg.mode = "flow" /\ e.cfg.maxParticles > 0)
            => Len(e.particles) <= e.cfg.maxParticles

\* A capped flow emitter with quantity > 1 that an update has filled to its cap.
C1_Witness ==
    /\ lastOp.op = "update"
    /\ \E e \in Emitters :
          /\ e.cfg.mode = "flow"
          /\ e.cfg.quantity > 1
          /\ e.cfg.maxParticles > 0
          /\ Len(e.particles) = e.cfg.maxParticles

\* C2: a particle with lifespan L > 0 born at b is dead exactly from the first
\* update with t - b >= L on (now is the largest timestamp it was updated
\* with), and a particle with lifespan 0 is never dead.
C2_DeadWhenLifeOver ==
    isDead(particle) <=>
        (particle.lifespan > 0 /\ now - particle.birthdate >= particle.lifespan)

\* An update at exactly t - b = L has killed the particle.
C2_Witness ==
    /\ lastOp.op = "p.update"
    /\ particle.lifespan > 0
    /\ now - particle.birthdate = particle.lifespan
    /\ isDead(particle)

\* A particle of lifespan 0 updated long after every finite lifespan.
C2_WitnessInfinite ==
    /\ lastOp.op = "p.update"
    /\ particle.lifespan = 0
    /\ now - particle.birthdate > Ms(3)
    /\ ~isDead(particle)

\* The emitter at index i of the pre-state is RUNNING and the step is an update
\* at timestamp now' that created particles in it.
Emitted(i) ==
    /\ lastOp'.op = "update"
    /\ i \in DOMAIN emitters'
    /\ emitters[i].state = "RUNNING"
    /\ BornAt(emitters'[i], now') # {}

\* The spawn region of e, in position units.
InRegion(e, p) ==
    /\ p.x >= e.cfg.x * PosUnit
    /\ p.x <= (e.cfg.x + e.cfg.width) * PosUnit
    /\ p.y >= e.cfg.y * PosUnit
    /\ p.y <= (e.cfg.y + e.cfg.height) * PosUnit

\* C3 as stated: after the update in which a burst emitter emitted, exactly
\* maxParticles particles were born in it and they all share one position.
\* (Stated on emitters whose particles all take the same direction and speed,
\* so that particles spawned together stay together.)
C3_Original ==
    \A e \in Emitters :
        (lastOp.op = "update" /\ e.cfg.mode = "burst" /\ BornAt(e, e.timestamp) # {})
            => /\ Cardinality(BornAt(e, e.timestamp)) = e.cfg.maxParticles
               /\ \A j, k \in BornAt(e, e.timestamp) :
                     /\ e.particles[j].x = e.particles[k].x
                     /\ e.particles[j].y = e.particles[k].y

\* C3 as amended: the burst adds exactly maxParticles particles, each at a
\* position of its own inside the spawn region.  (Stated on emitters whose
\* particles do not move, where a position after the emitting update is the
\* spawn position.)
C3_BurstSize ==
    \A e \in Emitters :
        (lastOp.op = "update" /\ e.cfg.mode = "burst" /\ e.cfg.speed = Range(0, 0)
           /\ BornAt(e, e.timestamp) # {})
            => /\ Cardinality(BornAt(e, e.timestamp)) = e.cfg.maxParticles
               /\ Len(e.particles) = e.cfg.maxParticles
               /\ \A k \in BornAt(e, e.timestamp) : InRegion(e, e.particles[k])

\* A burst has just put two particles at two different positions.
C3_Witness ==
    /\ lastOp.op = "update"
    /\ \E e \in Emitters :
          /\ e.cfg.mode = "burst"
          /\ Cardinality(BornAt(e, e.timestamp)) = e.cfg.maxParticles
          /\ \E j, k \in BornAt(e, e.timestamp) : e.particles[j].x # e.particles[k].x

\* C4 as stated: an emission at timestamp t happens only if
\* t - lastEmittedTime > nextEmitTime, a delay rolled from the frequency range
\* (so at least its minimum), in every mode.
C4_Original ==
    [][ \A i \in DOMAIN emitters :
          Emitted(i)
            => now' - emitters[i].lastEmittedTime > Ms(emitters[i].cfg.frequency.min) ]_vars

\* C4 as amended: a flow emitter emits at t only if t - lastEmittedTime is at
\* least a delay of the frequency range, and then stamps lastEmittedTime = t, so
\* two consecutive emissions are at least frequency.min apart; a burst emitter
\* emits at its first update while RUNNING, whatever time has elapsed.
C4_FlowGate ==
    [][ \A i \in DOMAIN emitters :
          /\ (Emitted(i) /\ emitters[i].cfg.mode = "flow")
                => /\ now' - emitters[i].lastEmittedTime
                         >= Ms(emitters[i].cfg.frequency.min)
                   /\ emitters'[i].lastEmittedTime = now'
          /\ (Emitted(i) /\ emitters[i].cfg.mode = "burst")
                => ~emitters[i].allParticlesCreated
          /\ (lastOp'.op = "update" /\ emitters[i].state = "RUNNING"
                /\ emitters[i].cfg.mode = "burst" /\ emitters[i].cfg.maxParticles > 0
                /\ ~emitters[i].allParticlesCreated)
                => Emitted(i) ]_vars

\* A flow emitter holds two particles emitted exactly frequency.min apart.
C4_Witness ==
    /\ lastOp.op = "update"
    /\ \E e \in Emitters :
          /\ e.cfg.mode = "flow"
          /\ \E j, k \in DOMAIN e.particles :
                e.particles[k].birthdate - e.particles[j].birthdate
                    = Ms(e.cfg.frequency.min)

EmitterOf(id) == CHOOSE e \in Emitters : e.id = id

\* C5 as stated: every drift magnitude pushed to a particle is 0 when the
\* drifting flag is false and the configured drift value when it is true.
C5_Original ==
    \A k \in DOMAIN driftPushes :
        LET push == driftPushes[k]
            drift == EmitterOf(push.id).cfg.drift
        IN  /\ ~push.drifting => push.value = 0
            /\ push.drifting => push.value = drift.value

\* C5 as amended: with a drift object, the magnitude pushed is 0 when the
\* drifting flag is false; when it is true it is the configured value or, once
\* the duration has elapsed, that value less the decay applied so far, never
\* below 0.  With a drift number the number itself is pushed on every tick.
C5_DriftPushed ==
    \A k \in DOMAIN driftPushes :
        LET push == driftPushes[k]
            drift == EmitterOf(push.id).cfg.drift
        IN  IF isDriftObject(drift)
            THEN /\ ~push.drifting => push.value = 0
                 /\ push.drifting
                      => \/ push.value = drift.value
                         \/ (0 <= push.value /\ push.value < drift.value)
            ELSE push.value = drift.value

\* A decayed magnitude was pushed while the cycle was still DRIFTING.
C5_Witness ==
    \E k \in DOMAIN driftPushes :
        LET push == driftPushes[k]
            drift == EmitterOf(push.id).cfg.drift
        IN  /\ isDriftObject(drift)
            /\ push.drifting
            /\ 0 < push.value
            /\ push.value < drift.value

\* C6: start() on an emitter that is RUNNING changes nothing of any emitter.
C6_StartIdempotent ==
    [][ (lastOp'.op = "start" /\ lastOp'.was = "RUNNING") => emitters' = emitters ]_vars

\* start() was called on a RUNNING burst emitter whose burst is over and whose
\* particles are still live.
C6_Witness ==
    /\ lastOp.op = "start"
    /\ lastOp.was = "RUNNING"
    /\ lastOp.had > 0
    /\ \E e \in Emitters :
          /\ e.id = lastOp.id
          /\ e.cfg.mode = "burst"
          /\ e.allParticlesCreated
          /\ Len(e.particles) > 0
          /\ e.lastFrame > 0

\* C7: at most one frame request is pending at any time, and Engine.start()
\* while the clock is RUNNING changes nothing: no second request, engineTime as
\* it was.
C7_OneFramePending ==
    /\ [](Cardinality(pendingFrames) <= 1)
    /\ [][ (lastOp'.op = "engine.start" /\ clockState = "RUNNING")
             => UNCHANGED << clockVars, emitters >> ]_vars

\* Engine.start() was called while the clock was RUNNING with time accumulated.
C7_Witness ==
    /\ lastOp.op = "engine.start"
    /\ lastOp.was = "RUNNING"
    /\ engineTime > 0
    /\ Cardinality(pendingFrames) = 1

\* The fields the constructor initialises, all but the scratch field timestamp.
SameButTimestamp(e, f) == [e EXCEPT !.timestamp = f.timestamp] = f

\* C8: after reset() the emitter is STOPPED with no particle and is, but for
\* its scratch timestamp, an emitter the constructor can build from the same
\* configuration; started and updated it does what that new emitter does.
C8_ResetIsFresh ==
    lastOp.op = "reset" =>
        LET e == EmitterOf(lastOp.id)
        IN  /\ e.state = "STOPPED"
            /\ e.particles = << >>
            /\ \E f \in NewEmitters(e.id, e.cfg) :
                  /\ SameButTimestamp(e, f)
                  /\ Emitter_update(Emitter_start(e), now + Quantum)
                       = Emitter_update(Emitter_start(f), now + Quantum)

\* reset() was called on a RUNNING emitter that held particles.
C8_Witness ==
    /\ lastOp.op = "reset"
    /\ lastOp.was = "RUNNING"
    /\ lastOp.had > 0
    /\ EmitterOf(lastOp.id).timestamp > 0

\* The birthdates, in ms, of the particles the scenario holds after an update at
\* timestamp t: those of 101, 202 and 303 born by t and less than 1000 ms old.
RECURSIVE ScenarioLive(_, _)
ScenarioLive(births, t) ==
    IF births = << >>
    THEN << >>
    ELSE (IF Ms(Head(births)) <= t /\ t - Ms(Head(births)) < Ms(1000)
          THEN << Ms(Head(births)) >>
          ELSE << >>) \o ScenarioLive(Tail(births), t)

\* C9: the scenario emitter holds one particle after the update at 101 ms, two
\* after 202, three after 303, never a fourth, and each particle is gone from
\* the first update 1000 ms after its birth on.
C9_Scenario ==
    lastOp.op = "update" =>
        LET ps == emitters[1].particles
        IN  /\ [k \in DOMAIN ps |-> ps[k].birthdate] = ScenarioLive(<< 101, 202, 303 >>, now)
            /\ \A k \in DOMAIN ps : ps[k].lifespan = Ms(1000)

\* The update at 1202 ms: the particles of 101 and 202 are gone, that of 303 is live.
C9_Witness ==
    /\ lastOp.op = "update"
    /\ now = Ms(1202)
    /\ Len(emitters[1].particles) = 1
    /\ emitters[1].particles[1].birthdate = Ms(303)

\* C10: removeEmitter(id) with an id that no emitter of the collection carries
\* leaves the collection as it is.
C10_RemoveAbsentIsNoOp ==
    [][ (lastOp'.op = "removeEmitter" /\ getEmitter(emitters, lastOp'.id) = 0)
          => emitters' = emitters ]_vars

\* The ids of the emitters of a collection, in collection order.
Ids(ems) == [k \in DOMAIN ems |-> getId(ems[k])]

\* getEmitter(id) finds an emitter, and that emitter carries the id.
Found(ems, id) ==
    /\ getEmitter(ems, id) # 0
    /\ getId(ems[getEmitter(ems, id)]) = id

\* C11: getEmitter(id) finds the emitter of that id exactly when a createEmitter
\* returned the id and no removeEmitter(id) was called since: createEmitter
\* makes its id found, removeEmitter(id) makes id not found, and no call
\* changes whether any other id is found.
C11_FoundIffCreatedNotRemoved ==
    [][ \A id \in 1 .. MaxCollection :
          Found(emitters', id) <=>
            IF lastOp'.op = "createEmitter" /\ lastOp'.id = id THEN TRUE
            ELSE IF lastOp'.op = "removeEmitter" /\ lastOp'.id = id THEN FALSE
            ELSE Found(emitters, id) ]_vars

\* The part of C11 about a createEmitter followed at once by removeEmitter of
\* the id it returned: the id is not found, and an engine that held no emitter
\* before holds none.
C11_CreateThenRemove ==
    [][ (lastOp.op = "createEmitter" /\ lastOp'.op = "removeEmitter"
            /\ lastOp'.id = lastOp.id)
          => /\ ~Found(emitters', lastOp.id)
             /\ (Len(emitters) = 1 => emitters' = << >>) ]_vars

\* The sequence s without its element at index k.
Without(s, k) == [j \in 1 .. (Len(s) - 1) |-> IF j < k THEN s[j] ELSE s[j + 1]]

\* C12: removeEmitter(id) with an id the collection holds removes exactly that
\* emitter, the others staying in their order with their state; and an
\* Engine.update draws for no emitter but those of the collection, and changes
\* neither the number nor the ids of its emitters.
C12_RemovesExactlyThat ==
    /\ [][ (lastOp'.op = "removeEmitter" /\ Found(emitters, lastOp'.id))
             => emitters' = Without(emitters, getEmitter(emitters, lastOp'.id)) ]_vars
    /\ [][ lastOp'.op = "update"
             => /\ Ids(emitters') = Ids(emitters)
                /\ \A j \in DOMAIN canvas' : Found(emitters, canvas'[j].emitter) ]_vars

\* removeEmitter(2) removed the second of three emitters, RUNNING with live
\* particles, and left the emitters 1 and 3, both with live particles.
C12_Witness ==
    /\ lastOp.op = "removeEmitter"
    /\ lastOp.id = 2
    /\ lastOp.was = "RUNNING"
    /\ lastOp.had > 0
    /\ Ids(emitters) = << 1, 3 >>
    /\ \A k \in DOMAIN emitters : Len(emitters[k].particles) > 0

\* C13: the engine starts with no id given out; every createEmitter returns the
\* number of createEmitter calls made so far, its own included, and appends an
\* emitter of that id; no other call changes that number; so the ids of the
\* collection increase strictly along it, and none is shared or used again.
C13_SequentialIds ==
    /\ emitterIdCount = 0
    /\ [][ IF lastOp'.op = "createEmitter"
           THEN /\ emitterIdCount' = emitterIdCount + 1
                /\ lastOp'.id = emitterIdCount + 1
                /\ Ids(emitters') = Append(Ids(emitters), emitterIdCount + 1)
           ELSE emitterIdCount' = emitterIdCount ]_vars
    /\ [](\A i, j \in DOMAIN emitters :
             /\ getId(emitters[i]) \in 1 .. emitterIdCount
             /\ i < j => getId(emitters[i]) < getId(emitters[j]))

\* The third createEmitter returned 3 although the emitters 1 and 2 had been
\* removed.
C13_Witness ==
    /\ lastOp.op = "createEmitter"
    /\ lastOp.id = 3
    /\ Ids(emitters) = << 3 >>

\* The draw calls of the emitters of a collection from index k on, emitter after
\* emitter, each emitter's particles in the order of its collection.
RECURSIVE RendersFrom(_, _)
RendersFrom(ems, k) ==
    IF k > Len(ems) THEN << >> ELSE Emitter_render(ems[k]) \o RendersFrom(ems, k + 1)

\* C14: after Engine.update the canvas holds, emitter after emitter in the order
\* of the collection, the draw calls of each emitter's particles as that update
\* left them, in the order of the emitter's collection; so every draw call of an
\* emitter comes before every draw call of an emitter created after it.
C14_DrawOrder ==
    lastOp.op = "update" =>
        /\ canvas = RendersFrom(emitters, 1)
        /\ \A i, j \in DOMAIN canvas :
              i < j => getEmitter(emitters, canvas[i].emitter)
                         <= getEmitter(emitters, canvas[j].emitter)

\* An Engine.update drew for two emitters at least, one of them with two
\* particles at different places.
C14_Witness ==
    /\ lastOp.op = "update"
    /\ \E i, j \in DOMAIN canvas : canvas[i].emitter # canvas[j].emitter
    /\ \E k \in DOMAIN emitters :
          /\ Len(emitters[k].particles) = 2
          /\ emitters[k].particles[1].y # emitters[k].particles[2].y
          /\ k < Len(emitters)

\* C15: after Engine.update(t) the canvas holds one draw call for each particle
\* of the collection and nothing drawn before that update (it was cleared, and
\* before the first draw call), and every RUNNING emitter and every particle has
\* been updated with the one timestamp t.
C15_ClearedOnceSameTimestamp ==
    lastOp.op = "update" =>
        /\ Len(canvas) = ParticleCount(emitters, 1)
        /\ \A k \in DOMAIN emitters :
              emitters[k].state = "RUNNING" =>
                  /\ emitters[k].timestamp = now
                  /\ emitters[k].lastFrame = now
                  /\ \A n \in DOMAIN emitters[k].particles :
                        emitters[k].particles[n].age
                          = now - emitters[k].particles[n].birthdate

\* An Engine.update of two RUNNING emitters with particles, the particles of one
\* born at two updates: the earlier update had drawn on the canvas.
C15_Witness ==
    /\ lastOp.op = "update"
    /\ Len(emitters) = 2
    /\ \A k \in DOMAIN emitters :
          emitters[k].state = "RUNNING" /\ Len(emitters[k].particles) > 0
    /\ \E k \in DOMAIN emitters :
          /\ Len(emitters[k].particles) = 2
          /\ emitters[k].particles[1].birthdate < emitters[k].particles[2].birthdate

\* C16: after Engine.stop() the clock is STOPPED at time 0, every emitter is
\* STOPPED with no particle and its timers at 0, and the canvas is clear; and
\* whenever the clock is STOPPED no frame request is pending, so that no update
\* comes before the next start().
C16_StopResetsAll ==
    /\ lastOp.op = "engine.stop" =>
          /\ clockState = "STOPPED"
          /\ engineTime = 0
          /\ canvas = << >>
          /\ \A k \in DOMAIN emitters :
                /\ emitters[k].state = "STOPPED"
                /\ emitters[k].particles = << >>
                /\ emitters[k].lastFrame = 0
                /\ emitters[k].lastEmittedTime = 0
                /\ emitters[k].lastDriftChange = 0
                /\ emitters[k].driftTimer = 0
                /\ ~emitters[k].allParticlesCreated
    /\ clockState = "STOPPED" => pendingFrames = {}

\* Engine.stop() was called while the clock was RUNNING with time accumulated
\* and two emitters held particles.
C16_Witness ==
    /\ lastOp.op = "engine.stop"
    /\ lastOp.was = "RUNNING"
    /\ lastOp.had >= 3
    /\ now >= 2 * Quantum
    /\ Len(emitters) = 2

\* C17: Engine.pause() changes neither the time of the clock nor any emitter and
\* leaves no frame request pending, and none is pending while the clock is
\* STOPPED; only an update and stop() change the time, and an update delivers the
\* time of the clock plus one quantum; so the first update after pause() and
\* start() carries the last delivered timestamp plus one quantum.
C17_PauseKeepsTime ==
    /\ [][ CASE lastOp'.op = "engine.pause" ->
                  /\ UNCHANGED << engineTime, now, emitters >>
                  /\ pendingFrames' = {}
             [] lastOp'.op = "update" ->
                  /\ now' = engineTime + Quantum
                  /\ engineTime' = now'
             [] lastOp'.op = "engine.stop" -> TRUE
             [] OTHER -> UNCHANGED << engineTime, now >> ]_vars
    /\ [](clockState = "STOPPED" => pendingFrames = {})
    /\ [](engineTime \in {0, now})

\* The clock, paused with time accumulated, was started again; an emitter is
\* RUNNING with particles and has emitted.
C17_Witness ==
    /\ lastOp.op = "engine.start"
    /\ lastOp.was = "STOPPED"
    /\ engineTime > 0
    /\ engineTime = now
    /\ \E k \in DOMAIN emitters :
          /\ emitters[k].state = "RUNNING"
          /\ Len(emitters[k].particles) > 0
          /\ emitters[k].lastEmittedTime > 0

\* C18: the clock starts at time 0 and stop() puts it back to 0; an update comes
\* only while the clock is RUNNING, leaves it RUNNING with one new frame request
\* pending, and delivers one quantum if no update came since the construction or
\* the last stop(), and the timestamp of the update before plus one quantum
\* otherwise.
C18_QuantumPerTick ==
    /\ engineTime = 0
    /\ [][ lastOp'.op = "engine.stop" => engineTime' = 0 ]_vars
    /\ [][ lastOp'.op = "update" =>
             /\ clockState = "RUNNING"
             /\ clockState' = "RUNNING"
             /\ Cardinality(pendingFrames') = 1
             /\ pendingFrames' \cap pendingFrames = {}
             /\ now' = IF engineTime = 0 THEN Quantum ELSE now + Quantum
             /\ engineTime' = now' ]_vars

\* The third update in a row since the clock was at 0.
C18_Witness ==
    /\ lastOp.op = "update"
    /\ now = 3 * Quantum
    /\ clockState = "RUNNING"

Born(ps) == [n \in DOMAIN ps |-> << ps[n].birthdate, ps[n].lifespan >>]

\* The particles of ps whose life is not over at the timestamp t.
Survivors(ps, t) ==
    SelectSeq(ps, LAMBDA p : ~(p.lifespan > 0 /\ t - p.birthdate >= p.lifespan))

\* C20: no emitter ever holds a dead particle; and an update at t of a RUNNING
\* emitter leaves, in their order, the particles it held whose life is not
\* over at t, each updated to t, followed by the particles it created at t.
C20_PurgeAfterUpdate ==
    /\ [](\A e \in Emitters : \A n \in DOMAIN e.particles : ~isDead(e.particles[n]))
    /\ [][ (lastOp'.op = "update" /\ lastOp'.was = "RUNNING") =>
             LET old == Survivors(emitters[1].particles, now')
                 new == emitters'[1].particles
             IN  /\ Len(new) >= Len(old)
                 /\ SubSeq(Born(new), 1, Len(old)) = Born(old)
                 /\ \A n \in DOMAIN new :
                       /\ new[n].age = now' - new[n].birthdate
                       /\ n > Len(old) => new[n].birthdate = now' ]_vars

\* An update of a RUNNING emitter with two particles removed one, whose life was
\* over, and kept the other, born before that update.
C20_Witness ==
    /\ lastOp.op = "update"
    /\ lastOp.was = "RUNNING"
    /\ lastOp.had = 2
    /\ Len(emitters[1].particles) = 1
    /\ emitters[1].particles[1].birthdate < now

\* C21: a dead particle stays dead; a step that leaves the particle dead, the
\* update in which it dies included, changes neither its position nor its
\* forces; and the render of a dead particle makes no draw call.
C21_DeadIsFinal ==
    /\ [][ isDead(particle) => isDead(particle') ]_vars
    /\ [][ isDead(particle') =>
             /\ particle'.x = particle.x
             /\ particle'.y = particle.y
             /\ particle'.fx = particle.fx
             /\ particle'.fy = particle.fy ]_vars
    /\ [](isDead(particle) => Particle_render(particle) = << >>)

\* A particle on which gravity and drift act, which had moved, was updated
\* again after the update in which it died.
C21_Witness ==
    /\ lastOp.op = "p.update"
    /\ isDead(particle)
    /\ particle.age > particle.lifespan
    /\ particle.gravity > 0
    /\ particle.drift > 0
    /\ particle.speed > 0
    /\ particle.y > 0

\* C22 as stated, with the emission delay of the frequency range as the time
\* between bursts: an update of a RUNNING burst emitter that comes more than
\* frequency.max after the burst its particles are from emits another burst.
C22_Original ==
    [][ ( /\ lastOp'.op = "update"
          /\ emitters[1].cfg.mode = "burst"
          /\ emitters[1].state = "RUNNING"
          /\ emitters[1].particles # << >>
          /\ \A n \in DOMAIN emitters[1].particles :
                now' - emitters[1].particles[n].birthdate
                  > Ms(emitters[1].cfg.frequency.max) )
        => Cardinality(BornAt(emitters'[1], now')) = emitters[1].cfg.maxParticles ]_vars

\* C22: a burst emitter bursts once: an update of a RUNNING burst emitter that
\* was updated before since it was started creates no particle.
C22_BurstOnce ==
    [][ ( /\ lastOp'.op = "update"
          /\ emitters[1].cfg.mode = "burst"
          /\ emitters[1].state = "RUNNING"
          /\ emitters[1].lastFrame > 0 )
        => /\ BornAt(emitters'[1], now') = {}
           /\ emitters'[1].allParticlesCreated ]_vars

\* A RUNNING burst emitter whose particles had all died was updated, frequency
\* and particle life long over, and holds no particle.
C22_Witness ==
    /\ lastOp.op = "update"
    /\ lastOp.was = "RUNNING"
    /\ lastOp.had = 0
    /\ emitters[1].cfg.mode = "burst"
    /\ emitters[1].allParticlesCreated
    /\ emitters[1].particles = << >>
    /\ now >= Ms(8)

\* The step is an update at now' of the emitter, a RUNNING flow emitter with a
\* cap.
CappedFlowUpdate ==
    /\ lastOp'.op = "update"
    /\ emitters[1].cfg.mode = "flow"
    /\ emitters[1].cfg.maxParticles > 0
    /\ emitters[1].state = "RUNNING"

\* C23 as stated: an update of a RUNNING capped flow emitter that holds fewer
\* than maxParticles particles and emitted last more than frequency.max ago
\* (a gate pass, whatever delay is rolled) emits.
C23_Original ==
    [][ ( /\ CappedFlowUpdate
          /\ Len(emitters[1].particles) < emitters[1].cfg.maxParticles
          /\ now' - emitters[1].lastEmittedTime > Ms(emitters[1].cfg.frequency.max) )
        => BornAt(emitters'[1], now') # {} ]_vars

\* C23: the emission that brings a capped flow emitter to maxParticles
\* particles sets allParticlesCreated, and from then on no update of the
\* RUNNING emitter emits or clears the flag, whatever the number of particles
\* it holds.
C23_FlowCapFinal ==
    /\ [][ (CappedFlowUpdate /\ Len(emitters'[1].particles) = emitters[1].cfg.maxParticles
              /\ BornAt(emitters'[1], now') # {})
             => emitters'[1].allParticlesCreated ]_vars
    /\ [][ (CappedFlowUpdate /\ emitters[1].allParticlesCreated)
             => /\ BornAt(emitters'[1], now') = {}
                /\ emitters'[1].allParticlesCreated ]_vars

\* A RUNNING capped flow emitter that had reached its cap was updated with one
\* particle left and its last emission more than frequency.max ago, and emitted
\* nothing.
C23_Witness ==
    /\ lastOp.op = "update"
    /\ lastOp.was = "RUNNING"
    /\ emitters[1].cfg.mode = "flow"
    /\ emitters[1].cfg.maxParticles > 1
    /\ emitters[1].allParticlesCreated
    /\ lastOp.had < emitters[1].cfg.maxParticles
    /\ now - emitters[1].lastEmittedTime > Ms(emitters[1].cfg.frequency.max)
    /\ BornAt(emitters[1], now) = {}

C25_AtMost1500 ==
    emitters[1].mode \in { "burst", "flock" } => emitters[1].generated <= 1500

\* C26: in burst or flow mode every particle created has a finite lifespan,
\* lifespan > 0, whatever particleLife range the options supplied.
C26_FiniteLife ==
    ( /\ emitters[1].mode \in { "burst", "flow" }
      /\ emitters[1].generated > 0 )
    => emitters[1].lifespan > 0

\* The option fields the documentation of the defaults lists, with the two
\* values the sources and the documentation give differently as parameters.
DocumentedDefaults(maxParticles, frequency) ==
    [ x |-> 0, y |-> 0, mode |-> "burst", maxParticles |-> maxParticles,
      particleLife |-> Range(2500, 3000), frequency |-> frequency,
      angle |-> Range(0, 360), speed |-> Range(100, 400), jitter |-> 0 ]

\* The constructed emitter has, in every listed field, the supplied value if
\* the configuration supplies the field and the default d[k] otherwise.
OverridesOnlyOwn(d) ==
    lastOp.op = "construct"
    => /\ emitters # << >>
       /\ \A k \in DOMAIN d :
            emitters[1].cfg[k] = IF k \in DOMAIN lastOp.options
                                 THEN lastOp.options[k]
                                 ELSE d[k]

C28_NoTickWithoutSurface ==
    (pendingFrames # {} \/ lastOp.op = "update.throws")
    => (callback /\ canvasContext = "2d")

\* C29 as stated, for the time of the last emission: an update of a RUNNING
\* emitter that emits sets lastEmittedTime to its timestamp, and one that emits
\* nothing leaves lastEmittedTime unchanged.
C29_Original ==
    [][ (lastOp'.op = "update" /\ emitters[1].state = "RUNNING")
           => IF BornAt(emitters'[1], now') # {}
              THEN emitters'[1].lastEmittedTime = now'
              ELSE emitters'[1].lastEmittedTime = emitters[1].lastEmittedTime ]_vars

\* C29: an update of a RUNNING flow emitter that emits sets lastEmittedTime to
\* its timestamp; an update that emits nothing, and the update in which a burst
\* emitter emits, leave lastEmittedTime unchanged.
C29_LastEmittedTime ==
    [][ (lastOp'.op = "update" /\ emitters[1].state = "RUNNING")
           => IF emitters[1].cfg.mode = "flow" /\ BornAt(emitters'[1], now') # {}
              THEN emitters'[1].lastEmittedTime = now'
              ELSE emitters'[1].lastEmittedTime = emitters[1].lastEmittedTime ]_vars

\* A flow emitter emitted for the second time: lastEmittedTime, which held the
\* time of the first emission, holds the timestamp of this update.
C29_Witness ==
    /\ lastOp.op = "update"
    /\ lastOp.was = "RUNNING"
    /\ emitters[1].cfg.mode = "flow"
    /\ BornAt(emitters[1], now) # {}
    /\ \E k \in DOMAIN emitters[1].particles :
          /\ emitters[1].particles[k].birthdate > 0
          /\ emitters[1].particles[k].birthdate < now
    /\ emitters[1].lastEmittedTime = now

\* The fields of the emitter's drift cycle.
DriftState(e) ==
    << e.driftValue, e.drifting, e.lastDriftChange, e.driftInterval, e.driftDuration >>

\* The emitters the drift cycle can make of those of S in n advances.
RECURSIVE DriftCyclesFrom(_, _)
DriftCyclesFrom(S, n) ==
    IF n = 0 THEN S ELSE DriftCyclesFrom(UNION { DriftCycle(e) : e \in S }, n - 1)

\* An update call was made on the RUNNING emitter, which has a drift object.
DriftingUpdate ==
    /\ lastOp'.op = "update"
    /\ emitters[1].state = "RUNNING"
    /\ isDriftObject(emitters[1].cfg.drift)

\* C30 as stated: one update call advances the drift cycle exactly once,
\* however many particles are live, and hands every particle the same drift
\* magnitude.
C30_Original ==
    [][ DriftingUpdate
           => LET stamped == [emitters[1] EXCEPT !.timestamp = now']
              IN  /\ DriftState(emitters'[1])
                        \in { DriftState(e) : e \in DriftCycle(stamped) }
                  /\ \A j, k \in DOMAIN driftPushes' :
                        driftPushes'[j].value = driftPushes'[k].value ]_vars

\* C30: one update call advances the drift cycle once for each particle it
\* updates, those it has just created included, and not at all when there is
\* none; the k-th particle is handed the magnitude as it stands after the k-th
\* advance.
C30_DriftPerParticle ==
    [][ DriftingUpdate
           => LET stamped == [emitters[1] EXCEPT !.timestamp = now']
                  n == Len(emitters[1].particles)
                         + Cardinality(BornAt(emitters'[1], now'))
              IN  /\ Len(driftPushes') = n
                  /\ DriftState(emitters'[1])
                        \in { DriftState(e) : e \in DriftCyclesFrom({stamped}, n) }
                  /\ n = 0 => DriftState(emitters'[1]) = DriftState(emitters[1])
                  /\ \A k \in 1 .. n :
                        driftPushes'[k].value
                           \in { e.driftValue : e \in DriftCyclesFrom({stamped}, k) } ]_vars

\* An update handed two particles different drift magnitudes.
C30_Witness ==
    /\ lastOp.op = "update"
    /\ lastOp.was = "RUNNING"
    /\ isDriftObject(emitters[1].cfg.drift)
    /\ \E j, k \in DOMAIN driftPushes : driftPushes[j].value # driftPushes[k].value

\* C31 as stated, for the end of a drift: an update of a RUNNING emitter that
\* hands its particles a drift, made while DRIFTING with
\* timestamp - lastDriftChange >= driftDuration, leaves DRIFTING with the
\* magnitude 0 and lastDriftChange restamped.
C31_Original ==
    [][ ( /\ DriftingUpdate
          /\ driftPushes' # << >>
          /\ emitters[1].drifting
          /\ now' - emitters[1].lastDriftChange >= emitters[1].driftDuration )
        => /\ ~emitters'[1].drifting
           /\ emitters'[1].driftValue = 0
           /\ emitters'[1].lastDriftChange = now' ]_vars

\* C31: the cycle leaves IDLE only on an update with
\* timestamp - lastDriftChange > driftInterval, which stamps lastDriftChange.
\* Once timestamp - lastDriftChange >= driftDuration while DRIFTING, each
\* particle updated takes one driftDecay off the magnitude; the cycle leaves
\* DRIFTING only on the update in which that would make the magnitude negative,
\* and then the magnitude is 0, driftInterval is re-rolled from the interval
\* range and lastDriftChange is restamped.
C31_DriftPhases ==
    [][ DriftingUpdate
        => LET e == emitters[1]
               f == emitters'[1]
               n == Len(driftPushes')
               due == now' - e.lastDriftChange >= e.driftDuration
           IN  /\ (~e.drifting /\ f.drifting)
                    => /\ now' - e.lastDriftChange > e.driftInterval
                       /\ f.lastDriftChange = now'
                       /\ f.driftValue = e.cfg.drift.value
               /\ (e.drifting /\ ~f.drifting)
                    => /\ due
                       /\ e.driftValue - n * DriftDecay < 0
                       /\ f.driftValue = 0
                       /\ f.lastDriftChange = now'
                       /\ \E di \in getRandomBetween(e.cfg.drift.interval.min,
                                                     e.cfg.drift.interval.max) :
                             f.driftInterval = Ms(di)
               /\ (e.drifting /\ due /\ e.driftValue - n * DriftDecay >= 0)
                    => /\ f.drifting
                       /\ f.driftValue = e.driftValue - n * DriftDecay
                       /\ f.lastDriftChange = e.lastDriftChange
               /\ (e.drifting /\ ~due) => DriftState(f) = DriftState(e) ]_vars

\* An update ended a drift of a positive magnitude: the magnitude is 0, the
\* cycle is IDLE and lastDriftChange is the timestamp of the update.
C31_Witness ==
    /\ lastOp.op = "update"
    /\ lastOp.was = "RUNNING"
    /\ isDriftObject(emitters[1].cfg.drift)
    /\ emitters[1].cfg.drift.value > 0
    /\ driftPushes # << >>
    /\ ~emitters[1].drifting
    /\ emitters[1].driftValue = 0
    /\ emitters[1].lastDriftChange = now

\* The delta an update at the timestamp t handed the particle p of the emitter
\* f, which e was before the update, was d: p has moved by speed * force * d,
\* from its spawn point if the update created it and from where its
\* predecessor in e was if the update purged no particle.
MovedBy(e, f, k, t, d) ==
    LET p == f.particles[k]
    IN  IF k \in BornAt(f, t)
        THEN /\ p.x - (f.cfg.x * PosUnit) \in
                  { (w * PosUnit) + (p.speed * p.fx * d) : w \in 0 .. f.cfg.width }
             /\ p.y - (f.cfg.y * PosUnit) \in
                  { (h * PosUnit) + (p.speed * p.fy * d) : h \in 0 .. f.cfg.height }
        ELSE Len(f.particles) = Len(e.particles) + Cardinality(BornAt(f, t))
                => /\ p.x = e.particles[k].x + (p.speed * p.fx * d)
                   /\ p.y = e.particles[k].y + (p.speed * p.fy * d)

C33_BornBeforeNow ==
    \A i \in DOMAIN emitters : \A k \in DOMAIN emitters[i].particles :
        /\ emitters[i].particles[k].birthdate <= engineTime
        /\ emitters[i].particles[k].age >= 0
        /\ emitters[i].particles[k].age = emitters[i].timestamp
                                            - emitters[i].particles[k].birthdate

\* stop() was called on a running clock while particles were live: the time is
\* 0 again and no particle is left.
C33_Witness ==
    /\ lastOp.op = "engine.stop"
    /\ lastOp.was = "RUNNING"
    /\ lastOp.had >= 1
    /\ engineTime = 0
    /\ ParticleCount(emitters, 1) = 0

\* C34: at an engine tick, a RUNNING emitter that spawns holds the particles
\* it spawned after the tick; each of them was updated in the tick, at age 0
\* and without dying, and the canvas holds its draw call.
C34_SpawnedIsDrawn ==
    [][ lastOp'.op = "update"
        => \A i \in DOMAIN emitters :
              emitters[i].state = "RUNNING"
              => LET e == emitters[i]
                     f == emitters'[i]
                     born == BornAt(f, now')
                 IN  /\ (e.cfg.mode = "burst" /\ ~e.allParticlesCreated)
                           => Cardinality(born) = e.cfg.maxParticles
                     /\ (e.cfg.mode = "flow" /\ f.lastEmittedTime = now')
                           => Cardinality(born) = 1
                     /\ \A k \in born :
                           /\ f.particles[k].age = 0
                           /\ ~isDead(f.particles[k])
                           /\ MovedBy(e, f, k, now', now' - e.lastFrame)
                           /\ \E j \in DOMAIN canvas' :
                                 canvas'[j] = [ x |-> f.particles[k].x,
                                                y |-> f.particles[k].y,
                                                size |-> 10 * f.particles[k].size,
                                                emitter |-> f.id ] ]_vars

\* A tick in which both emitters spawned, one of them next to a particle it
\* already held.
C34_Witness ==
    /\ lastOp.op = "update"
    /\ Len(emitters) = 2
    /\ \A i \in DOMAIN emitters : BornAt(emitters[i], now) # {}
    /\ \E i \in DOMAIN emitters :
          Len(emitters[i].particles) > Cardinality(BornAt(emitters[i], now))

\* C35: every value the emitter rolls from a configured range lies within the
\* range, and is the constant when min = max: the lifespan of a particle
\* (integer helper) and the drift set on one (float helper).
C35_RolledInRange ==
    LET e == emitters[1]
        InRange(v, r) == r.min <= v /\ v <= r.max
    IN  /\ e.generated > 0 => InRange(e.lifespan, e.particleLife)
        /\ lastOp.op = "older.drift"
              => /\ e.drift \in { "x-axis", "both" } => InRange(e.driftX, e.driftValue)
                 /\ e.drift \in { "y-axis", "both" } => InRange(e.driftY, e.driftValue)

\* C36: an update that moves the particle adds gravity * size to fy and
\* nothing else, adds drift * size and the jitter force to fx and nothing else,
\* and the jitter adds nothing when jitter is 0; so a force whose parameter is
\* 0 adds nothing, and with gravity, drift and jitter all 0 the update leaves
\* (fx, fy) as it was.
C36_ZeroForceDisabled ==
    [][ (lastOp'.op = "p.update" /\ ~isDead(particle'))
        => LET p == particle
               q == particle'
           IN  /\ q.fy = p.fy + (p.gravity * p.size)
               /\ p.gravity = 0 => q.fy = p.fy
               /\ p.jitter = 0 => q.fx = p.fx + (p.drift * p.size)
               /\ p.drift = 0 => q.fx = applyJitter(p, now', now' - now).fx
               /\ (p.drift = 0 /\ p.jitter = 0) => q.fx = p.fx ]_vars

\* A particle with gravity, drift and jitter 0 was updated a second time at
\* least: its force vector is the direction of its birth, straight down.
C36_Witness ==
    /\ lastOp.op = "p.update"
    /\ ~isDead(particle)
    /\ particle.gravity = 0 /\ particle.drift = 0 /\ particle.jitter = 0
    /\ particle.age >= Ms(3)
    /\ particle.fx = 0
    /\ particle.fy = ForceUnit
    /\ particle.y > 0

\* C37: an update that moves a particle with jitter > 0 reverses the jitter
\* force and stamps lastJitter with its timestamp if
\* timestamp - lastJitter >= jitterInterval, and leaves both as they were if
\* not; nothing else changes either.
C37_JitterFlip ==
    [][ LET p == particle
            q == particle'
        IN  IF lastOp'.op = "p.update" /\ ~isDead(q) /\ p.jitter > 0
               /\ now' - p.lastJitter >= p.jitterInterval
            THEN /\ q.jitterForce = (-1) * p.jitterForce
                 /\ q.lastJitter = now'
            ELSE /\ q.jitterForce = p.jitterForce
                 /\ q.lastJitter = p.lastJitter ]_vars

\* A particle whose jitter interval is 2 ms has reversed its jitter force for
\* the second time at least.
C37_Witness ==
    /\ lastOp.op = "p.update"
    /\ ~isDead(particle)
    /\ particle.jitter > 0
    /\ particle.jitterInterval = Ms(2)
    /\ particle.lastJitter = now
    /\ now >= Ms(4)

\* The waypoints the particle created as the id-th had before the tick, none
\* if the tick created it.
QueueBefore(e, id) ==
    IF \E i \in DOMAIN e.particles : e.particles[i].id = id
    THEN (CHOOSE p \in { e.particles[i] : i \in DOMAIN e.particles } : p.id = id).flock
    ELSE << >>

\* C38: in a tick of a flock emitter that computes a waypoint, every particle
\* of the collection, the ones of the tick before and in their order, has that
\* waypoint appended once to its queue, with a delay that grows strictly along
\* the collection, which is in creation order; in a tick that computes none,
\* no queue changes; and a waypoint is computed only when more than nextFlock
\* has passed since lastFlock, which are the time of the broadcast before (0
\* before the first) and the interval rolled at it.
C38_FlockBroadcast ==
    [][ lastOp'.op = "older.update"
        => LET e == emitters[1]
               f == emitters'[1]
               meta == lastOp'.was
               seen == lastOp'.had
           IN  /\ \A i \in DOMAIN e.particles :
                     i \in DOMAIN seen /\ seen[i].id = e.particles[i].id
               /\ \A i, j \in DOMAIN seen : i < j => seen[i].id < seen[j].id
               /\ IF meta # NoFlockMeta
                  THEN /\ \A i \in DOMAIN seen :
                             LET before == QueueBefore(e, seen[i].id)
                                 queue == seen[i].flock
                             IN  /\ Len(queue) = Len(before) + 1
                                 /\ SubSeq(queue, 1, Len(before)) = before
                                 /\ queue[Len(queue)].x = meta.x
                                 /\ queue[Len(queue)].y = meta.y
                       /\ \A i, j \in DOMAIN seen :
                             i < j => seen[i].flock[Len(seen[i].flock)].interval
                                        < seen[j].flock[Len(seen[j].flock)].interval
                       /\ now' - e.lastFlock > e.nextFlock
                       /\ f.lastFlock = now'
                  ELSE /\ \A i \in DOMAIN seen :
                             seen[i].flock = QueueBefore(e, seen[i].id)
                       /\ f.lastFlock = e.lastFlock
                       /\ f.nextFlock = e.nextFlock ]_vars

\* Three particles were handed their second waypoint.
C38_Witness ==
    /\ lastOp.op = "older.update"
    /\ lastOp.was # NoFlockMeta
    /\ Len(lastOp.had) = 3
    /\ \A i \in DOMAIN lastOp.had : Len(lastOp.had[i].flock) = 2
    /\ emitters[1].lastFlock = now

\* C39 as stated: the waypoint of a broadcast lies in the spawn footprint,
\* x .. x + width by y .. y + height.
C39_Original ==
    (lastOp.op = "older.update" /\ lastOp.was # NoFlockMeta)
        => /\ lastOp.was.x \in emitters[1].x .. (emitters[1].x + emitters[1].width)
           /\ lastOp.was.y \in emitters[1].y .. (emitters[1].y + emitters[1].height)

\* C39: the waypoint of a broadcast lies in 0 .. width by 0 .. height,
\* wherever the emitter is, and so does every waypoint in a queue.
C39_WaypointFromOrigin ==
    lastOp.op = "older.update"
        => /\ lastOp.was # NoFlockMeta
                => /\ lastOp.was.x \in 0 .. emitters[1].width
                   /\ lastOp.was.y \in 0 .. emitters[1].height
           /\ \A i \in DOMAIN emitters[1].particles :
                 \A k \in DOMAIN emitters[1].particles[i].flock :
                    /\ emitters[1].particles[i].flock[k].x \in 0 .. emitters[1].width
                    /\ emitters[1].particles[i].flock[k].y \in 0 .. emitters[1].height

\* An emitter at (3, 3) handed its particles the waypoint (1, 2).
C39_Witness ==
    /\ lastOp.op = "older.update"
    /\ lastOp.was # NoFlockMeta
    /\ emitters[1].x = 3 /\ emitters[1].y = 3
    /\ lastOp.was.x = 1 /\ lastOp.was.y = 2
    /\ Len(emitters[1].particles) > 0

====
